---- MODULE Spec2Model ----
(***************************************************************************)
(* Model of the rivian-ls telemetry client: the event reducer              *)
(* (internal/model), the GraphQL-over-WebSocket client (internal/rivian),  *)
(* the watch coordinator (internal/cli), and the HTTP client's session     *)
(* with the start-up authentication (internal/rivian, cmd/rivian-ls).      *)
(*                                                                         *)
(* Floating point quantities are modelled as integers; a division the      *)
(* code performs in float64 is modelled by integer division, which keeps   *)
(* every comparison against the integer thresholds the code uses.          *)
(***************************************************************************)
EXTENDS Integers, Sequences, FiniteSets, TLC

VARIABLES
    \* ---- reducer (internal/model) ----
    heap,          \* allocated *VehicleState values, indexed by address
    currentState,  \* Reducer.currentState: 0 is nil, else an address of heap
    now,           \* the wall clock read by time.Now()
    fetched,       \* *rivian.VehicleState returned by GetVehicleState, not yet dispatched
    lastApiState,  \* the vehicleStateData that fetched was parsed from
    returned,      \* pointers handed to callers, with the value seen at that moment
    lastEvent,     \* the operation that produced the present state
    nOps,          \* number of reducer operations performed
    \* ---- WebSocketClient (internal/rivian/websocket.go) ----
    mu,            \* holder of c.mu's write lock, Free when unlocked
    conn,          \* c.conn: 0 is nil, else a connection number
    closed,        \* c.closed
    closeSignal,   \* c.closeSignal: "open" or "closed"
    panicked,      \* the process died of a runtime panic
    subscriptions, \* c.subscriptions: subscription id -> callback
    reconnectCount,\* c.reconnectCount
    pc,            \* position of every messageLoop / pingLoop goroutine
    lconn,         \* the local variable conn of every goroutine
    msg,           \* the frame a messageLoop is handling
    cb,            \* the callback a messageLoop looked up
    peer,          \* what the server did to each connection
    localClosed,   \* connections on which conn.Close() was called
    sent,          \* frames written to the server
    nDelivered,    \* number of callback invocations
    nFrames,       \* number of frames the server sent
    nConns,        \* number of connections dialled successfully
    chanLen,       \* len(updateChan) of the vehicle-state subscription
    chanClosed,    \* close(updateChan) happened
    closeReturned, \* Close returned and no Connect dialled since
    closeLog,      \* results of the Close calls since the last Connect that dialled
    \* ---- WatchCommand (internal/cli/watch.go) ----
    runPc,         \* position of WatchCommand.Run
    interval,      \* opts.Interval: 0 means WebSocket mode
    cancelled,     \* ctx.Done() is closed
    nEmitted,      \* states written to the output (saturating)
    nPollFetches,  \* get_vehicle_state calls issued on the polling tick (saturating)
    \* ---- HTTPClient session (internal/rivian/client.go, auth.go) ----
    credentials,   \* c.credentials: NilCredentials or a Credentials record
    csrfToken,     \* c.csrfToken
    appSessionID,  \* c.appSessionID
    otpToken,      \* c.otpToken
    email,         \* c.email
    wallClock,     \* time.Now(), in minutes
    requests,      \* the GraphQL requests sent so far: operation and u-sess header
    nRequests,     \* number of GraphQL requests sent
    authResult,    \* the last client call and the error it returned
    nElapses,      \* number of times the wall clock was advanced
    \* ---- authenticate (cmd/rivian-ls/main.go) ----
    authPc,        \* position of authenticate
    cacheFile,     \* contents of the credentials cache file, NilCache when missing
    emailArg,      \* *email
    \* ---- doGraphQL (internal/rivian/client.go) ----
    httpResponse,  \* what httpClient.Do returns for the request
    gqlOutcome,    \* the error doGraphQL returned and the state of *result
    \* ---- TUI Model (internal/tui/model.go) ----
    tuiPc,         \* position of subscribeToUpdates and of the goroutine it starts
    hasStore,      \* m.store != nil
    stateChanLen,  \* len(m.updateChans[vehicleID])
    waitPc,        \* position of the waitForUpdates command
    \* ---- Store (internal/store/store.go) ----
    rows,          \* the vehicle_states table, in insertion order
    storeResult,   \* the last Store call and what it returned, with its arguments if it succeeded
    \* ---- CredentialsCache on its own (internal/auth/cache.go) ----
    cacheResult,   \* the last CredentialsCache call and what it returned
    \* ---- StatusCommand (internal/cli/status.go) ----
    statusResult,  \* the last StatusCommand.Run: its options, what it did and returned
    \* ---- run (cmd/rivian-ls/main.go) ----
    mainPc,        \* where run is: start, authenticate, vehicles, store, route, exited
    argv,          \* the command line the process was started with
    exitStatus     \* the exit status of the process and the kind of ending behind it

rvars == <<heap, currentState, now, fetched, lastApiState, returned, lastEvent, nOps>>

wvars == <<mu, conn, closed, closeSignal, panicked, subscriptions, reconnectCount,
           pc, lconn, msg, cb, peer, localClosed, sent, nDelivered, nFrames, nConns,
           chanLen, chanClosed, closeReturned, closeLog>>

cvars == <<runPc, interval, cancelled, nEmitted, nPollFetches>>

avars == <<credentials, csrfToken, appSessionID, otpToken, email, wallClock,
           requests, nRequests, authResult, nElapses>>

mvars == <<authPc, cacheFile, emailArg>>

gvars == <<httpResponse, gqlOutcome>>

tvars == <<tuiPc, hasStore, stateChanLen, waitPc>>

svars == <<rows, storeResult>>

xvars == <<cacheResult, statusResult, mainPc, argv, exitStatus>>

vars == <<rvars, wvars, cvars, avars, mvars, gvars, tvars, svars, xvars>>

---------------------------------------------------------------------------
\* Bounds of the model

MaxEvents == 3
MaxClock == 2
MaxConns == 1
MaxFrames == 1
MaxCloses == 2
MaxCount == 2
MaxRequests == 4
MaxElapses == 2
MaxRows == 3

---------------------------------------------------------------------------
\* The HTTP client's session (internal/rivian/client.go, internal/rivian/auth.go)

\* Time is counted in minutes.
ExpiryBuffer == 5
TokenLifetime == 1440

\* A nil *string of a decoded response
Null == "<nil>"

NilCredentials == [nil |-> TRUE]
Credentials(accessToken, refreshToken, expiresAt) ==
    [AccessToken |-> accessToken, RefreshToken |-> refreshToken, ExpiresAt |-> expiresAt]

\* The user-session tokens the server issues
UserSessionTokens == {"UST"}

\* doGraphQL returned an error: transport, status, decoding or a GraphQL error
GqlError == [Typename |-> "error"]

CsrfResponses ==
    {[Typename |-> "CreateCsrfTokenResponse", CsrfToken |-> "CSRF", AppSessionToken |-> "APP"]}

LoginResponses ==
    {[Typename |-> "MobileMFALoginResponse", AccessToken |-> Null, RefreshToken |-> Null,
      UserSessionToken |-> Null, OtpToken |-> "OTP"],
     [Typename |-> "MobileMFALoginResponse", AccessToken |-> Null, RefreshToken |-> Null,
      UserSessionToken |-> Null, OtpToken |-> Null],
     [Typename |-> "MobileLoginResponse", AccessToken |-> "AT", RefreshToken |-> "RT",
      UserSessionToken |-> "UST", OtpToken |-> Null],
     [Typename |-> "MobileLoginResponse", AccessToken |-> Null, RefreshToken |-> "RT",
      UserSessionToken |-> "UST", OtpToken |-> Null],
     [Typename |-> "MobileLoginResponse", AccessToken |-> "AT", RefreshToken |-> "RT",
      UserSessionToken |-> Null, OtpToken |-> Null]}

OTPResponses ==
    {[Typename |-> "MobileLoginResponse", AccessToken |-> "AT", RefreshToken |-> "RT",
      UserSessionToken |-> "UST"]}

RefreshResponses == {[AccessToken |-> "AT", RefreshToken |-> "RT"]}

Emails == {"", "a@example.com", "b@example.com"}

\* Credentials handed to WithCredentials: none, expired ones, ones still valid
InitialCredentials ==
    {NilCredentials, Credentials("UST", "RT", ExpiryBuffer - 1), Credentials("UST", "RT", TokenLifetime)}

IsAuthenticated ==
    /\ credentials # NilCredentials
    /\ wallClock + ExpiryBuffer < credentials.ExpiresAt

\* The request doGraphQL sends; of its headers only u-sess is recorded
Request(op) ==
    [op |-> op,
     usess |-> IF credentials # NilCredentials /\ credentials.AccessToken # ""
               THEN credentials.AccessToken ELSE ""]

Result(call, err) == [call |-> call, err |-> err]

\* A nil pointer dereference ended the process
Crashed == authResult.err = "panic"

\* AuthenticateCall, had the MFA branch not stored the OTP token
AuthenticateCallDroppingOtp(em, csrfResp, loginResp) ==
    /\ ~Crashed
    /\ nRequests + 2 <= MaxRequests
    /\ IF csrfResp = GqlError
       THEN /\ requests' = requests \cup {Request("createCsrfToken")}
            /\ nRequests' = nRequests + 1
            /\ authResult' = Result("Authenticate", "create CSRF token")
            /\ UNCHANGED <<credentials, csrfToken, appSessionID, otpToken, email>>
       ELSE /\ csrfToken' = csrfResp.CsrfToken
            /\ appSessionID' = csrfResp.AppSessionToken
            /\ email' = em
            /\ requests' = requests \cup {Request("createCsrfToken"), Request("login")}
            /\ nRequests' = nRequests + 2
            /\ IF loginResp = GqlError
               THEN /\ authResult' = Result("Authenticate", "login request")
                    /\ UNCHANGED <<credentials, otpToken>>
               ELSE IF loginResp.Typename = "MobileMFALoginResponse"
               THEN IF loginResp.OtpToken # Null
                    THEN /\ authResult' = Result("Authenticate", "OTPRequired")
                         /\ UNCHANGED <<credentials, otpToken>>
                    ELSE /\ authResult' = Result("Authenticate", "MFA required but no OTP token received")
                         /\ UNCHANGED <<credentials, otpToken>>
               ELSE IF loginResp.AccessToken = Null \/ loginResp.RefreshToken = Null
               THEN /\ authResult' = Result("Authenticate", "login response missing tokens")
                    /\ UNCHANGED <<credentials, otpToken>>
               ELSE IF loginResp.UserSessionToken = Null
               THEN /\ authResult' = Result("Authenticate", "panic")
                    /\ UNCHANGED <<credentials, otpToken>>
               ELSE /\ credentials' = Credentials(loginResp.UserSessionToken, loginResp.RefreshToken,
                                                  wallClock + TokenLifetime)
                    /\ authResult' = Result("Authenticate", "nil")
                    /\ UNCHANGED otpToken
    /\ UNCHANGED <<wallClock, nElapses>>
AuthenticateCall(em, csrfResp, loginResp) ==
    /\ ~Crashed
    /\ nRequests + 2 <= MaxRequests
    /\ IF csrfResp = GqlError
       THEN /\ requests' = requests \cup {Request("createCsrfToken")}
            /\ nRequests' = nRequests + 1
            /\ authResult' = Result("Authenticate", "create CSRF token")
            /\ UNCHANGED <<credentials, csrfToken, appSessionID, otpToken, email>>
       ELSE /\ csrfToken' = csrfResp.CsrfToken
            /\ appSessionID' = csrfResp.AppSessionToken
            /\ email' = em
            /\ requests' = requests \cup {Request("createCsrfToken"), Request("login")}
            /\ nRequests' = nRequests + 2
            /\ IF loginResp = GqlError
               THEN /\ authResult' = Result("Authenticate", "login request")
                    /\ UNCHANGED <<credentials, otpToken>>
               ELSE IF loginResp.Typename = "MobileMFALoginResponse"
               THEN IF loginResp.OtpToken # Null
                    THEN /\ otpToken' = loginResp.OtpToken
                         /\ authResult' = Result("Authenticate", "OTPRequired")
                         /\ UNCHANGED credentials
                    ELSE /\ authResult' = Result("Authenticate", "MFA required but no OTP token received")
                         /\ UNCHANGED <<credentials, otpToken>>
               ELSE IF loginResp.AccessToken = Null \/ loginResp.RefreshToken = Null
               THEN /\ authResult' = Result("Authenticate", "login response missing tokens")
                    /\ UNCHANGED <<credentials, otpToken>>
               ELSE IF loginResp.UserSessionToken = Null
               THEN /\ authResult' = Result("Authenticate", "panic")
                    /\ UNCHANGED <<credentials, otpToken>>
               ELSE /\ credentials' = Credentials(loginResp.UserSessionToken, loginResp.RefreshToken,
                                                  wallClock + TokenLifetime)
                    /\ authResult' = Result("Authenticate", "nil")
                    /\ UNCHANGED otpToken
    /\ UNCHANGED <<wallClock, nElapses>>

\* SubmitOTPCall, had a success not cleared the stored email
SubmitOTPCallKeepingEmail(resp) ==
    /\ ~Crashed
    /\ nRequests + 1 <= MaxRequests
    /\ IF otpToken = ""
       THEN /\ authResult' = Result("SubmitOTP", "no OTP session active")
            /\ UNCHANGED <<credentials, otpToken, email, requests, nRequests>>
       ELSE IF email = ""
       THEN /\ authResult' = Result("SubmitOTP", "no email stored")
            /\ UNCHANGED <<credentials, otpToken, email, requests, nRequests>>
       ELSE /\ requests' = requests \cup {Request("loginWithOTP")}
            /\ nRequests' = nRequests + 1
            /\ IF resp = GqlError
               THEN /\ authResult' = Result("SubmitOTP", "submit OTP")
                    /\ UNCHANGED <<credentials, otpToken, email>>
               ELSE /\ credentials' = Credentials(resp.UserSessionToken, resp.RefreshToken,
                                                  wallClock + TokenLifetime)
                    /\ otpToken' = ""
                    /\ UNCHANGED email
                    /\ authResult' = Result("SubmitOTP", "nil")
    /\ UNCHANGED <<csrfToken, appSessionID, wallClock, nElapses>>
\* SubmitOTPCall, had the stored email not been checked before the request
SubmitOTPCallUnguarded(resp) ==
    /\ ~Crashed
    /\ nRequests + 1 <= MaxRequests
    /\ IF otpToken = ""
       THEN /\ authResult' = Result("SubmitOTP", "no OTP session active")
            /\ UNCHANGED <<credentials, otpToken, email, requests, nRequests>>
       ELSE /\ requests' = requests \cup {Request("loginWithOTP")}
            /\ nRequests' = nRequests + 1
            /\ IF resp = GqlError
               THEN /\ authResult' = Result("SubmitOTP", "submit OTP")
                    /\ UNCHANGED <<credentials, otpToken, email>>
               ELSE /\ credentials' = Credentials(resp.UserSessionToken, resp.RefreshToken,
                                                  wallClock + TokenLifetime)
                    /\ otpToken' = ""
                    /\ email' = ""
                    /\ authResult' = Result("SubmitOTP", "nil")
    /\ UNCHANGED <<csrfToken, appSessionID, wallClock, nElapses>>
SubmitOTPCall(resp) ==
    /\ ~Crashed
    /\ nRequests + 1 <= MaxRequests
    /\ IF otpToken = ""
       THEN /\ authResult' = Result("SubmitOTP", "no OTP session active")
            /\ UNCHANGED <<credentials, otpToken, email, requests, nRequests>>
       ELSE IF email = ""
       THEN /\ authResult' = Result("SubmitOTP", "no email stored")
            /\ UNCHANGED <<credentials, otpToken, email, requests, nRequests>>
       ELSE /\ requests' = requests \cup {Request("loginWithOTP")}
            /\ nRequests' = nRequests + 1
            /\ IF resp = GqlError
               THEN /\ authResult' = Result("SubmitOTP", "submit OTP")
                    /\ UNCHANGED <<credentials, otpToken, email>>
               ELSE /\ credentials' = Credentials(resp.UserSessionToken, resp.RefreshToken,
                                                  wallClock + TokenLifetime)
                    /\ otpToken' = ""
                    /\ email' = ""
                    /\ authResult' = Result("SubmitOTP", "nil")
    /\ UNCHANGED <<csrfToken, appSessionID, wallClock, nElapses>>

RefreshTokenCall(resp) ==
    /\ ~Crashed
    /\ nRequests + 1 <= MaxRequests
    /\ IF credentials = NilCredentials \/ credentials.RefreshToken = ""
       THEN /\ authResult' = Result("RefreshToken", "no refresh token available")
            /\ UNCHANGED <<credentials, requests, nRequests>>
       ELSE /\ requests' = requests \cup {Request("refreshAccessToken")}
            /\ nRequests' = nRequests + 1
            /\ IF resp = GqlError
               THEN /\ authResult' = Result("RefreshToken", "refresh token")
                    /\ UNCHANGED credentials
               ELSE /\ credentials' = Credentials(resp.AccessToken, resp.RefreshToken,
                                                  wallClock + TokenLifetime)
                    /\ authResult' = Result("RefreshToken", "nil")
    /\ UNCHANGED <<csrfToken, appSessionID, otpToken, email, wallClock, nElapses>>

\* GetVehicles, as far as the session is concerned: the request it sends
GetVehiclesCall(ok) ==
    /\ ~Crashed
    /\ nRequests + 1 <= MaxRequests
    /\ IF ~IsAuthenticated
       THEN /\ authResult' = Result("GetVehicles", "not authenticated")
            /\ UNCHANGED <<requests, nRequests>>
       ELSE /\ requests' = requests \cup {Request("getVehicles")}
            /\ nRequests' = nRequests + 1
            /\ authResult' = Result("GetVehicles", IF ok THEN "nil" ELSE "get vehicles")
    /\ UNCHANGED <<credentials, csrfToken, appSessionID, otpToken, email, wallClock, nElapses>>

\* Time passes: a minute, or a token's lifetime but for a minute more than the
\* expiry buffer
Elapse ==
    /\ nElapses < MaxElapses
    /\ \E d \in {1, TokenLifetime - ExpiryBuffer - 1} : wallClock' = wallClock + d
    /\ nElapses' = nElapses + 1
    /\ UNCHANGED <<credentials, csrfToken, appSessionID, otpToken, email, requests,
                   nRequests, authResult>>

\* NewHTTPClient with no option
InitHTTPClient ==
    /\ credentials = NilCredentials
    /\ csrfToken = ""
    /\ appSessionID = ""
    /\ otpToken = ""
    /\ email = ""
    /\ wallClock = 0
    /\ requests = {}
    /\ nRequests = 0
    /\ authResult = Result("none", "nil")
    /\ nElapses = 0

---------------------------------------------------------------------------
\* The credentials cache (internal/auth/cache.go)

NilCache == [missing |-> TRUE]

CachedCredentials(em, accessToken, refreshToken, expiresAt) ==
    [Email |-> em, AccessToken |-> accessToken, RefreshToken |-> refreshToken,
     ExpiresAt |-> expiresAt]

\* IsValid, had the comparison admitted the boundary
IsValidInclusive(c) == c.ExpiresAt - wallClock >= ExpiryBuffer

IsValid(c) == c.ExpiresAt - wallClock > ExpiryBuffer

ToRivianCredentials(c) == Credentials(c.AccessToken, c.RefreshToken, c.ExpiresAt)

Save(em, creds) == CachedCredentials(em, creds.AccessToken, creds.RefreshToken, creds.ExpiresAt)

\* The cache files an earlier run may have left behind
CacheFiles ==
    {NilCache,
     CachedCredentials("a@example.com", "UST", "RT", ExpiryBuffer - 1),
     CachedCredentials("a@example.com", "UST", "RT", TokenLifetime)}

---------------------------------------------------------------------------
\* authenticate (cmd/rivian-ls/main.go)

SetCredentials(creds) == credentials' = creds

\* Up to the call of RefreshToken or Authenticate: the cache lookups
AuthStart ==
    /\ authPc = "start"
    /\ IF emailArg = "" /\ cacheFile # NilCache /\ IsValid(cacheFile)
       THEN /\ SetCredentials(ToRivianCredentials(cacheFile))
            /\ authPc' = "done"
            /\ UNCHANGED emailArg
       ELSE \E input \in Emails :
              LET e == IF emailArg = "" THEN input ELSE emailArg
              IN /\ emailArg' = e
                 /\ IF cacheFile # NilCache /\ cacheFile.Email = e
                    THEN /\ SetCredentials(ToRivianCredentials(cacheFile))
                         /\ authPc' = IF IsValid(cacheFile) THEN "done" ELSE "refresh"
                    ELSE /\ authPc' = "login"
                         /\ UNCHANGED credentials
    /\ UNCHANGED <<csrfToken, appSessionID, otpToken, email, wallClock, requests,
                   nRequests, authResult, nElapses, cacheFile>>

AuthRefresh ==
    /\ authPc = "refresh"
    /\ \E resp \in {GqlError} \cup RefreshResponses : RefreshTokenCall(resp)
    /\ IF authResult'.err = "nil"
       THEN /\ cacheFile' = Save(emailArg, credentials')
            /\ authPc' = "done"
       ELSE /\ authPc' = "login"
            /\ UNCHANGED cacheFile
    /\ UNCHANGED emailArg

AuthLogin ==
    /\ authPc = "login"
    /\ \E passwordErr \in BOOLEAN :
         IF passwordErr
         THEN /\ authPc' = "failed"
              /\ UNCHANGED avars
         ELSE /\ \E csrfResp \in {GqlError} \cup CsrfResponses,
                    loginResp \in {GqlError} \cup LoginResponses :
                    AuthenticateCall(emailArg, csrfResp, loginResp)
              /\ authPc' = CASE authResult'.err = "nil" -> "verify"
                             [] authResult'.err = "OTPRequired" -> "otp"
                             [] authResult'.err = "panic" -> "crashed"
                             [] OTHER -> "failed"
    /\ UNCHANGED <<cacheFile, emailArg>>

AuthOTP ==
    /\ authPc = "otp"
    /\ \E resp \in {GqlError} \cup OTPResponses : SubmitOTPCall(resp)
    /\ authPc' = IF authResult'.err = "nil" THEN "verify" ELSE "failed"
    /\ UNCHANGED <<cacheFile, emailArg>>

AuthVerify ==
    /\ authPc = "verify"
    /\ IF IsAuthenticated
       THEN /\ cacheFile' = Save(emailArg, credentials)
            /\ authPc' = "done"
       ELSE /\ authPc' = "failed"
            /\ UNCHANGED cacheFile
    /\ UNCHANGED <<avars, emailArg>>

\* The program is run again: a new client, the same cache file
Rerun ==
    /\ authPc \in {"done", "failed", "crashed"}
    /\ authPc' = "start"
    /\ emailArg' \in Emails
    /\ credentials' = NilCredentials
    /\ csrfToken' = ""
    /\ appSessionID' = ""
    /\ otpToken' = ""
    /\ email' = ""
    /\ authResult' = Result("none", "nil")
    /\ UNCHANGED <<wallClock, requests, nRequests, nElapses, cacheFile>>

InitIdleAuthenticate ==
    /\ authPc = "none"
    /\ cacheFile = NilCache
    /\ emailArg = ""

---------------------------------------------------------------------------
\* doGraphQL (internal/rivian/client.go)

StatusOK == 200

\* What the transport hands back: an error of Do, or a status and a body. A
\* body is text, or JSON with an optional errors array and a data member that
\* is null, fits the result type, or does not fit it.
HttpResponses ==
    [doErr : BOOLEAN,
     status : {StatusOK, 401, 500},
     json : BOOLEAN,
     text : {"", "Unauthorized"},
     errorsPresent : BOOLEAN,
     errors : {<<>>, <<"Not Found">>, <<"Rate limited", "Not Found">>},
     data : {"null", "fits", "misfit"}]

\* json.Decoder into graphqlResponse: an absent errors member is an empty slice
DecodeErrors(r) == IF r.errorsPresent THEN r.errors ELSE <<>>

\* The body as io.ReadAll returns it
Body(r) ==
    IF r.json
    THEN [errors |-> DecodeErrors(r), data |-> r.data]
    ELSE [textBody |-> r.text]

NilError == [kind |-> "nil"]

\* *result: "untouched" as the caller passed it, "populated" from data,
\* "partial" when json.Unmarshal stopped at the member that does not fit
Outcome(err, result) == [err |-> err, result |-> result]
NoOutcome == [pending |-> TRUE]

\* doGraphQL, had it decoded data before looking at the errors array
doGraphQLDataFirst(r, wantResult, partial) ==
    IF r.doErr
    THEN Outcome([kind |-> "execute request"], "untouched")
    ELSE IF r.status # StatusOK
    THEN Outcome([kind |-> "unexpected status", status |-> r.status, body |-> Body(r)],
                 "untouched")
    ELSE IF ~r.json
    THEN Outcome([kind |-> "decode response"], "untouched")
    ELSE IF wantResult /\ r.data = "misfit"
    THEN Outcome([kind |-> "unmarshal data"], IF partial THEN "partial" ELSE "untouched")
    ELSE IF Len(DecodeErrors(r)) > 0
    THEN Outcome([kind |-> "graphql error", message |-> DecodeErrors(r)[1]],
                 IF wantResult /\ r.data = "fits" THEN "populated" ELSE "untouched")
    ELSE Outcome(NilError, IF wantResult /\ r.data = "fits" THEN "populated" ELSE "untouched")

doGraphQL(r, wantResult, partial) ==
    IF r.doErr
    THEN Outcome([kind |-> "execute request"], "untouched")
    ELSE IF r.status # StatusOK
    THEN Outcome([kind |-> "unexpected status", status |-> r.status, body |-> Body(r)],
                 "untouched")
    ELSE IF ~r.json
    THEN Outcome([kind |-> "decode response"], "untouched")
    ELSE IF Len(DecodeErrors(r)) > 0
    THEN Outcome([kind |-> "graphql error", message |-> DecodeErrors(r)[1]], "untouched")
    ELSE IF wantResult /\ r.data = "misfit"
    THEN Outcome([kind |-> "unmarshal data"], IF partial THEN "partial" ELSE "untouched")
    ELSE Outcome(NilError, IF wantResult /\ r.data = "fits" THEN "populated" ELSE "untouched")

\* One request: the call returns
DoGraphQL ==
    /\ gqlOutcome = NoOutcome
    /\ \E wantResult \in BOOLEAN, partial \in BOOLEAN :
          gqlOutcome' = doGraphQL(httpResponse, wantResult, partial)
    /\ UNCHANGED httpResponse

\* The next request gets its response
NextRequest ==
    /\ gqlOutcome # NoOutcome
    /\ httpResponse' \in HttpResponses
    /\ gqlOutcome' = NoOutcome

InitGraphQL ==
    /\ httpResponse \in HttpResponses
    /\ gqlOutcome = NoOutcome

InitIdleGraphQL ==
    /\ httpResponse = [doErr |-> TRUE, status |-> StatusOK, json |-> FALSE, text |-> "",
                       errorsPresent |-> FALSE, errors |-> <<>>, data |-> "null"]
    /\ gqlOutcome = NoOutcome

\* No TUI running
IdleTui == UNCHANGED tvars

InitIdleTui ==
    /\ tuiPc = "none"
    /\ hasStore = FALSE
    /\ stateChanLen = 0
    /\ waitPc = "none"

\* No Store call made
NoResult == [op |-> "none", args |-> <<>>, err |-> "nil", states |-> <<>>, count |-> 0]

IdleStore == UNCHANGED svars

InitIdleStore ==
    /\ rows = <<>>
    /\ storeResult = NoResult

\* No CredentialsCache call made
NoCacheResult == [op |-> "none", err |-> "nil", value |-> [nil |-> TRUE]]

IdleCommands == UNCHANGED xvars

\* No status command run
NoStatus ==
    [offline |-> FALSE, vehicleID |-> "", storeNil |-> FALSE, network |-> FALSE,
     err |-> "none", output |-> <<>>]

\* run not started
IdleMain == UNCHANGED <<mainPc, argv, exitStatus>>

InitIdleMain ==
    /\ mainPc = "none"
    /\ argv = <<>>
    /\ exitStatus = [code |-> -1, failure |-> "running"]

InitIdleCommands ==
    /\ cacheResult = NoCacheResult
    /\ statusResult = NoStatus
    /\ InitIdleMain

\* No HTTP session in play and no store in use
IdleHTTPClient == UNCHANGED <<avars, mvars, gvars>> /\ IdleStore /\ IdleCommands
InitIdleHTTPClient ==
    InitHTTPClient /\ InitIdleAuthenticate /\ InitIdleGraphQL /\ InitIdleStore /\ InitIdleCommands

\* Neither an HTTP session nor the TUI in play
IdleSession == IdleHTTPClient /\ IdleTui
InitIdleSession == InitIdleHTTPClient /\ InitIdleTui

---------------------------------------------------------------------------
\* Domain model (internal/model/vehicle.go)

NoFloat == [some |-> FALSE, v |-> 0]
SomeFloat(x) == [some |-> TRUE, v |-> x]

RangeStatusCritical == "critical"
RangeStatusLow == "low"
RangeStatusNormal == "normal"

\* The zero value VehicleState{}: every string empty, every number 0.
ZeroVehicleState ==
    [VehicleID |-> "", VIN |-> "", Name |-> "", Model |-> "",
     UpdatedAt |-> 0,
     BatteryLevel |-> 0, BatteryCapacity |-> 0, RangeEstimate |-> 0,
     ChargeState |-> "", ChargeLimit |-> 0,
     CabinTemp |-> NoFloat,
     IsLocked |-> FALSE, IsOnline |-> FALSE, Odometer |-> 0,
     RangeStatus |-> ""]

DetermineRangeStatus(miles) ==
    IF miles < 25 THEN RangeStatusCritical
    ELSE IF miles < 50 THEN RangeStatusLow
    ELSE RangeStatusNormal

\* km / 1.60934, m / 1609.34, C * 9/5 + 32
kilometersToMiles(km) == (km * 100000) \div 160934
metersToMiles(m) == (m * 100) \div 160934
celsiusToFahrenheit(c) ==
    IF c.some THEN SomeFloat(((c.v * 9) \div 5) + 32) ELSE NoFloat

estimateBatteryCapacity(model, batteryPercent, rangeMiles) ==
    IF batteryPercent <= 0 \/ rangeMiles <= 0 THEN 0
    ELSE LET rangeAt100 == (rangeMiles * 100) \div batteryPercent
         IN  IF model = "R1S" THEN (rangeAt100 * 10) \div 21
             ELSE rangeAt100 \div 2

\* v is a rivian.VehicleState (wire units)
FromRivianVehicleState(v) ==
    LET miles == kilometersToMiles(v.RangeEstimate)
        base == [ZeroVehicleState EXCEPT
                    !.VehicleID = v.VehicleID,
                    !.UpdatedAt = v.UpdatedAt,
                    !.BatteryLevel = v.BatteryLevel,
                    !.BatteryCapacity = v.BatteryCapacity,
                    !.RangeEstimate = miles,
                    !.ChargeState = v.ChargeState,
                    !.ChargeLimit = v.ChargeLimit,
                    !.IsLocked = v.IsLocked,
                    !.IsOnline = v.IsOnline,
                    !.Odometer = metersToMiles(v.Odometer),
                    !.CabinTemp = celsiusToFahrenheit(v.CabinTemp),
                    !.RangeStatus = DetermineRangeStatus(miles)]
    IN  IF base.BatteryCapacity = 0 /\ base.BatteryLevel > 0 /\ base.RangeEstimate > 0
        THEN [base EXCEPT !.BatteryCapacity =
                 estimateBatteryCapacity(base.Model, base.BatteryLevel, base.RangeEstimate)]
        ELSE base

---------------------------------------------------------------------------
\* HTTPS client, the part the reducer's inputs come from (internal/rivian)

parseChargeState(status) ==
    CASE status = "charging" -> "charging"
      [] status \in {"complete", "fully_charged"} -> "complete"
      [] status = "scheduled" -> "scheduled"
      [] status \in {"disconnected", "not_connected"} -> "disconnected"
      [] status \in {"not_charging", "stopped"} -> "not_charging"
      [] OTHER -> "unknown"

\* An absent door-lock field is the string "" here.
DoorLockOk(d) == d = "" \/ d = "locked"

\* The wire payloads the model feeds to parseVehicleState.
WireStates ==
    { [BatteryLevel |-> 80, DistanceToEmpty |-> 100, ChargerState |-> "charging",
       BatteryLimit |-> 85, VehicleMileage |-> 19866, Cabin |-> SomeFloat(20),
       DoorLocks |-> <<"locked", "locked", "locked", "locked">>],
      [BatteryLevel |-> 20, DistanceToEmpty |-> 60, ChargerState |-> "stopped",
       BatteryLimit |-> 85, VehicleMileage |-> 19866, Cabin |-> NoFloat,
       DoorLocks |-> <<"locked", "unlocked", "locked", "locked">>],
      [BatteryLevel |-> 0, DistanceToEmpty |-> 0, ChargerState |-> "",
       BatteryLimit |-> 0, VehicleMileage |-> 0, Cabin |-> NoFloat,
       DoorLocks |-> <<"", "", "", "">>] }

parseVehicleState(vehicleID, apiState, t) ==
    [VehicleID |-> vehicleID,
     UpdatedAt |-> t,
     BatteryLevel |-> apiState.BatteryLevel,
     BatteryCapacity |-> 0,
     RangeEstimate |-> apiState.DistanceToEmpty,
     ChargeState |-> parseChargeState(apiState.ChargerState),
     ChargeLimit |-> apiState.BatteryLimit,
     Odometer |-> apiState.VehicleMileage,
     CabinTemp |-> apiState.Cabin,
     IsLocked |-> \A i \in 1..4 : DoorLockOk(apiState.DoorLocks[i]),
     IsOnline |-> TRUE]

NoState == [VehicleID |-> ""]
\* No response at hand
NoApiState == [DoorLocks |-> <<>>]

---------------------------------------------------------------------------
\* Reducer events (internal/model/reducer.go)

TrackedID == "vehicle-1"

Vehicle1 == [ID |-> "vehicle-1", VIN |-> "VIN123", Name |-> "My R1T", Model |-> "R1T"]
Vehicle1Renamed == [ID |-> "vehicle-1", VIN |-> "VIN123", Name |-> "Truck", Model |-> "R1T"]
Vehicle2 == [ID |-> "vehicle-2", VIN |-> "VIN456", Name |-> "My R1S", Model |-> "R1S"]

VehicleLists ==
    { <<Vehicle1, Vehicle2>>, <<Vehicle2, Vehicle1Renamed>>, <<Vehicle2>> }

\* Typed values of a map[string]interface{}
F(x) == [t |-> "float64", f |-> x, s |-> "", b |-> FALSE]
S(x) == [t |-> "string", f |-> 0, s |-> x, b |-> FALSE]
B(x) == [t |-> "bool", f |-> 0, s |-> "", b |-> x]

UpdateMaps ==
    << ("rangeEstimate" :> F(40)),
       ("rangeEstimate" :> S("40") @@ "batteryLevel" :> F(90)),
       ("chargeState" :> S("charging") @@ "isLocked" :> B(TRUE) @@ "cabinTemp" :> F(72)),
       ("vin" :> S("") @@ "name" :> S("Other") @@ "model" :> S("") @@ "VIN" :> S("X")) >>

\* Index of the first vehicle of the list with the tracked id, 0 when none.
FindVehicle(vehicles, id) ==
    LET hits == {i \in 1..Len(vehicles) : vehicles[i].ID = id}
    IN  IF hits = {} THEN 0
        ELSE CHOOSE i \in hits : \A j \in hits : i <= j

Has(u, k, ty) == k \in DOMAIN u /\ u[k].t = ty

\* A partial update that also took the identity keys from the map.
PartialStateUpdateApplyToIdentityKeys(cur, vehicleID, u, t) ==
    LET base == IF cur = NoState THEN [ZeroVehicleState EXCEPT !.VehicleID = vehicleID]
                ELSE cur
    IN  [base EXCEPT
            !.UpdatedAt = t,
            !.VIN = IF Has(u, "vin", "string") THEN u["vin"].s ELSE @,
            !.Name = IF Has(u, "name", "string") THEN u["name"].s ELSE @,
            !.Model = IF Has(u, "model", "string") THEN u["model"].s ELSE @,
            !.BatteryLevel = IF Has(u, "batteryLevel", "float64")
                             THEN u["batteryLevel"].f ELSE @,
            !.RangeEstimate = IF Has(u, "rangeEstimate", "float64")
                              THEN u["rangeEstimate"].f ELSE @,
            !.RangeStatus = IF Has(u, "rangeEstimate", "float64")
                            THEN DetermineRangeStatus(u["rangeEstimate"].f) ELSE @,
            !.ChargeState = IF Has(u, "chargeState", "string")
                            THEN u["chargeState"].s ELSE @,
            !.IsLocked = IF Has(u, "isLocked", "bool") THEN u["isLocked"].b ELSE @,
            !.CabinTemp = IF Has(u, "cabinTemp", "float64")
                          THEN SomeFloat(u["cabinTemp"].f) ELSE @]

\* A partial update applied to a fresh value instead of a copy of the prior one.
PartialStateUpdateApplyToFresh(cur, vehicleID, u, t) ==
    LET base == [ZeroVehicleState EXCEPT
                    !.VehicleID = vehicleID,
                    !.VIN = IF cur = NoState THEN "" ELSE cur.VIN,
                    !.Name = IF cur = NoState THEN "" ELSE cur.Name,
                    !.Model = IF cur = NoState THEN "" ELSE cur.Model]
    IN  [base EXCEPT
            !.UpdatedAt = t,
            !.BatteryLevel = IF Has(u, "batteryLevel", "float64")
                             THEN u["batteryLevel"].f ELSE @,
            !.RangeEstimate = IF Has(u, "rangeEstimate", "float64")
                              THEN u["rangeEstimate"].f ELSE @,
            !.RangeStatus = IF Has(u, "rangeEstimate", "float64")
                            THEN DetermineRangeStatus(u["rangeEstimate"].f) ELSE @,
            !.ChargeState = IF Has(u, "chargeState", "string")
                            THEN u["chargeState"].s ELSE @,
            !.IsLocked = IF Has(u, "isLocked", "bool") THEN u["isLocked"].b ELSE @,
            !.CabinTemp = IF Has(u, "cabinTemp", "float64")
                          THEN SomeFloat(u["cabinTemp"].f) ELSE @]

\* The value PartialStateUpdate.ApplyTo returns a pointer to; cur is the value
\* current points to, NoState when current is nil.
PartialStateUpdateApplyTo(cur, vehicleID, u, t) ==
    LET base == IF cur = NoState THEN [ZeroVehicleState EXCEPT !.VehicleID = vehicleID]
                ELSE cur
    IN  [base EXCEPT
            !.UpdatedAt = t,
            !.BatteryLevel = IF Has(u, "batteryLevel", "float64")
                             THEN u["batteryLevel"].f ELSE @,
            !.RangeEstimate = IF Has(u, "rangeEstimate", "float64")
                              THEN u["rangeEstimate"].f ELSE @,
            !.RangeStatus = IF Has(u, "rangeEstimate", "float64")
                            THEN DetermineRangeStatus(u["rangeEstimate"].f) ELSE @,
            !.ChargeState = IF Has(u, "chargeState", "string")
                            THEN u["chargeState"].s ELSE @,
            !.IsLocked = IF Has(u, "isLocked", "bool") THEN u["isLocked"].b ELSE @,
            !.CabinTemp = IF Has(u, "cabinTemp", "float64")
                          THEN SomeFloat(u["cabinTemp"].f) ELSE @]

\* A snapshot merge that also keeps the prior charge limit and cabin
\* temperature where the new state has none.
VehicleStateReceivedApplyToKeeping(cur, rivState) ==
    LET newState == FromRivianVehicleState(rivState)
    IN  IF cur = NoState THEN newState
        ELSE [newState EXCEPT
                !.VIN = IF @ = "" THEN cur.VIN ELSE @,
                !.Name = IF @ = "" THEN cur.Name ELSE @,
                !.Model = IF @ = "" THEN cur.Model ELSE @,
                !.ChargeLimit = IF @ = 0 THEN cur.ChargeLimit ELSE @,
                !.CabinTemp = IF @ = NoFloat THEN cur.CabinTemp ELSE @]

\* The value VehicleStateReceived.ApplyTo returns a pointer to, for a non-nil State.
VehicleStateReceivedApplyTo(cur, rivState) ==
    LET newState == FromRivianVehicleState(rivState)
    IN  IF cur = NoState THEN newState
        ELSE [newState EXCEPT
                !.VIN = IF @ = "" THEN cur.VIN ELSE @,
                !.Name = IF @ = "" THEN cur.Name ELSE @,
                !.Model = IF @ = "" THEN cur.Model ELSE @]

\* The fields VehicleListReceived.ApplyTo writes through the current pointer.
VehicleListReceivedWrite(cur, v, t) ==
    [cur EXCEPT !.VehicleID = v.ID, !.VIN = v.VIN, !.Name = v.Name,
                !.Model = v.Model, !.UpdatedAt = t]

Deref(a) == IF a = 0 THEN NoState ELSE heap[a]

Event(kind, arg) == [kind |-> kind, arg |-> arg]

\* An identity event that drops the state when the tracked vehicle is not listed.
DispatchVehicleListReceivedClearing ==
    \E vehicles \in VehicleLists :
        LET i == FindVehicle(vehicles, TrackedID) IN
        /\ nOps < MaxEvents
        /\ nOps' = nOps + 1
        /\ lastEvent' = Event("identity", i)
        /\ IF i = 0
           THEN /\ currentState' = 0
                /\ UNCHANGED <<heap, returned>>
           ELSE IF currentState = 0
           THEN /\ heap' = Append(heap, VehicleListReceivedWrite(ZeroVehicleState,
                                                                 vehicles[i], now))
                /\ currentState' = Len(heap) + 1
                /\ returned' = returned \cup {[addr |-> currentState',
                                               val |-> heap'[currentState']]}
           ELSE /\ heap' = [heap EXCEPT ![currentState] =
                               VehicleListReceivedWrite(@, vehicles[i], now)]
                /\ UNCHANGED currentState
                /\ returned' = returned \cup {[addr |-> currentState,
                                               val |-> heap'[currentState]]}
        /\ UNCHANGED <<now, fetched, lastApiState>>

\* Reducer.Dispatch(VehicleListReceived{vehicles, TrackedID})
DispatchVehicleListReceived ==
    \E vehicles \in VehicleLists :
        LET i == FindVehicle(vehicles, TrackedID) IN
        /\ nOps < MaxEvents
        /\ nOps' = nOps + 1
        /\ lastEvent' = Event("identity", i)
        /\ IF i = 0
           THEN /\ UNCHANGED <<heap, currentState>>
                /\ returned' = IF currentState = 0 THEN returned
                               ELSE returned \cup {[addr |-> currentState,
                                                    val |-> heap[currentState]]}
           ELSE IF currentState = 0
           THEN /\ heap' = Append(heap, VehicleListReceivedWrite(ZeroVehicleState,
                                                                 vehicles[i], now))
                /\ currentState' = Len(heap) + 1
                /\ returned' = returned \cup {[addr |-> currentState',
                                               val |-> heap'[currentState']]}
           ELSE /\ heap' = [heap EXCEPT ![currentState] =
                               VehicleListReceivedWrite(@, vehicles[i], now)]
                /\ UNCHANGED currentState
                /\ returned' = returned \cup {[addr |-> currentState,
                                               val |-> heap'[currentState]]}
        /\ UNCHANGED <<now, fetched, lastApiState>>

\* HTTPClient.GetVehicleState: the response is parsed, and stamped, on arrival.
GetVehicleState ==
    \E api \in WireStates :
        /\ nOps < MaxEvents
        /\ fetched' = parseVehicleState(TrackedID, api, now)
        /\ lastApiState' = api
        /\ UNCHANGED <<heap, currentState, now, returned, lastEvent, nOps>>

\* Reducer.Dispatch(VehicleStateReceived{State}), State nil or the fetched state
DispatchVehicleStateReceived ==
    \E isNil \in BOOLEAN :
        /\ nOps < MaxEvents
        /\ nOps' = nOps + 1
        /\ IF isNil
           THEN /\ lastEvent' = Event("snapshot", 0)
                /\ UNCHANGED <<heap, currentState, fetched, lastApiState>>
           ELSE /\ fetched # NoState
                /\ lastEvent' = Event("snapshot", 1)
                /\ heap' = Append(heap, VehicleStateReceivedApplyTo(Deref(currentState),
                                                                    fetched))
                /\ currentState' = Len(heap) + 1
                /\ fetched' = NoState
                /\ lastApiState' = NoApiState
        /\ returned' = IF currentState' = 0 THEN returned
                       ELSE returned \cup {[addr |-> currentState',
                                            val |-> heap'[currentState']]}
        /\ UNCHANGED now

\* Reducer.Dispatch(PartialStateUpdate{TrackedID, updates})
DispatchPartialStateUpdate ==
    \E k \in 1..Len(UpdateMaps) :
        /\ nOps < MaxEvents
        /\ nOps' = nOps + 1
        /\ lastEvent' = Event("partial", k)
        /\ heap' = Append(heap, PartialStateUpdateApplyTo(Deref(currentState), TrackedID,
                                                          UpdateMaps[k], now))
        /\ currentState' = Len(heap) + 1
        /\ returned' = returned \cup {[addr |-> currentState',
                                       val |-> heap'[currentState']]}
        /\ UNCHANGED <<now, fetched, lastApiState>>

\* Reducer.GetState: a copy of the current value at a fresh address
GetState ==
    /\ nOps < MaxEvents
    /\ nOps' = nOps + 1
    /\ lastEvent' = Event("get", 0)
    /\ IF currentState = 0
       THEN UNCHANGED <<heap, returned>>
       ELSE /\ heap' = Append(heap, heap[currentState])
            /\ returned' = returned \cup {[addr |-> Len(heap) + 1,
                                           val |-> heap[currentState]]}
    /\ UNCHANGED <<currentState, now, fetched, lastApiState>>

\* time passes
Tick ==
    /\ now < MaxClock
    /\ now' = now + 1
    /\ UNCHANGED <<heap, currentState, fetched, lastApiState, returned, lastEvent, nOps>>

InitReducer ==
    /\ heap = <<>>
    /\ currentState = 0
    /\ now = 0
    /\ fetched = NoState
    /\ lastApiState = NoApiState
    /\ returned = {}
    /\ lastEvent = Event("none", 0)
    /\ nOps = 0

NextReducer ==
    \/ DispatchVehicleListReceived /\ UNCHANGED <<wvars, cvars>> /\ IdleSession
    \/ GetVehicleState /\ UNCHANGED <<wvars, cvars>> /\ IdleSession
    \/ DispatchVehicleStateReceived /\ UNCHANGED <<wvars, cvars>> /\ IdleSession
    \/ DispatchPartialStateUpdate /\ UNCHANGED <<wvars, cvars>> /\ IdleSession
    \/ GetState /\ UNCHANGED <<wvars, cvars>> /\ IdleSession
    \/ Tick /\ UNCHANGED <<wvars, cvars>> /\ IdleSession

---------------------------------------------------------------------------
\* WebSocket client (internal/rivian/websocket.go)

MaxReconnects == 10
ChanCap == 10

ConnIds == 1..MaxConns
ML(k) == <<"ml", k>>
PL(k) == <<"pl", k>>
Goroutines == {ML(k) : k \in ConnIds} \cup {PL(k) : k \in ConnIds}
Free == <<"free", 0>>
App == <<"app", 0>>

SubIds == {"vehicle-state-vehicle-1"}
\* "chan" is the closure SubscribeToVehicleState registers, "user" any other callback
Callbacks == {"chan", "user"}
NoMsg == [type |-> "", id |-> ""]

\* Frames the server can send
Frames ==
    {[type |-> t, id |-> ""] : t \in {"connection_ack", "ka"}}
        \cup {[type |-> t, id |-> i] : t \in {"data", "error", "complete"}, i \in SubIds}

Frame(c, t, i) == [conn |-> c, type |-> t, id |-> i]

\* A write on the socket succeeds while the connection is up.
WriteOk(c) == c # 0 /\ peer[c] = "up" /\ ~localClosed[c]

Remove(f, k) == [x \in DOMAIN f \ {k} |-> f[x]]

InitWS ==
    /\ mu = Free
    /\ conn = 0
    /\ closed = FALSE
    /\ closeSignal = "open"
    /\ panicked = FALSE
    /\ subscriptions = <<>>
    /\ reconnectCount = 0
    /\ pc = [t \in Goroutines |-> "none"]
    /\ lconn = [t \in Goroutines |-> 0]
    /\ msg = [k \in ConnIds |-> NoMsg]
    /\ cb = [k \in ConnIds |-> ""]
    /\ peer = [k \in ConnIds |-> "none"]
    /\ localClosed = [k \in ConnIds |-> FALSE]
    /\ sent = {}
    /\ nDelivered = 0
    /\ nFrames = 0
    /\ nConns = 0
    /\ chanLen = 0
    /\ chanClosed = FALSE
    /\ closeReturned = FALSE
    /\ closeLog = <<>>

\* WebSocketClient.Connect called by `caller`: the application, or a goroutine
\* inside handleDisconnect (which holds c.mu). outcome is what the network does:
\* the dial fails, the connection_init write fails, or both succeed.
\* res is the returned error ("nil" for none).
ConnectCall(caller, outcome, res) ==
    /\ ~panicked
    /\ mu = Free
    /\ IF conn # 0
       THEN /\ res = "already connected"
            /\ UNCHANGED <<conn, closed, reconnectCount, peer, localClosed, sent, nConns,
                           closeReturned, closeLog>>
            /\ pc' = IF caller = App THEN pc ELSE [pc EXCEPT ![caller] = "done"]
       ELSE IF outcome = "dialfail" \/ nConns >= MaxConns \/ cancelled
       THEN /\ res = "dial websocket"
            /\ UNCHANGED <<conn, closed, reconnectCount, peer, localClosed, sent, nConns,
                           closeReturned, closeLog>>
            /\ pc' = IF caller = App THEN pc ELSE [pc EXCEPT ![caller] = "done"]
       ELSE LET k == nConns + 1 IN
            /\ nConns' = k
            /\ closed' = FALSE
            /\ reconnectCount' = 0
            /\ IF outcome = "initfail"
               THEN /\ res = "send connection_init"
                    /\ peer' = [peer EXCEPT ![k] = "expected"]
                    /\ localClosed' = [localClosed EXCEPT ![k] = TRUE]
                    /\ conn' = 0
                    /\ pc' = IF caller = App THEN pc ELSE [pc EXCEPT ![caller] = "done"]
                    /\ closeReturned' = FALSE
                    /\ closeLog' = <<>>
                    /\ UNCHANGED sent
               ELSE /\ res = "nil"
                    /\ peer' = [peer EXCEPT ![k] = "up"]
                    /\ conn' = k
                    /\ sent' = sent \cup {Frame(k, "connection_init", "")}
                    /\ pc' = [t \in Goroutines |->
                                 IF t = ML(k) THEN "select"
                                 ELSE IF t = PL(k) THEN "wait"
                                 ELSE IF t = caller THEN "done"
                                 ELSE pc[t]]
                    /\ closeReturned' = FALSE
                    /\ closeLog' = <<>>
                    /\ UNCHANGED localClosed
    \* handleDisconnect's loop over c.subscriptions sends nothing; its deferred
    \* Unlock leaves the lock free, as Connect's own does.
    /\ UNCHANGED <<mu, closeSignal, panicked, subscriptions, lconn, msg, cb,
                   nDelivered, nFrames, chanLen, chanClosed>>

ConnectCallers == {App} \cup {t \in Goroutines : pc[t] = "hd_connect"}
ConnectOutcomes == {"dialfail", "initfail", "ok"}

\* WebSocketClient.Subscribe(ctx, id, query, variables, callback)
SubscribeCall(id, callback, res) ==
    /\ ~panicked
    /\ mu = Free
    /\ IF conn = 0
       THEN /\ res = "not connected"
            /\ UNCHANGED <<subscriptions, sent>>
       ELSE IF WriteOk(conn)
       THEN /\ res = "nil"
            /\ subscriptions' = (id :> callback) @@ subscriptions
            /\ sent' = sent \cup {Frame(conn, "start", id)}
       ELSE /\ res = "send start"
            /\ subscriptions' = Remove(subscriptions, id)
            /\ UNCHANGED sent
    /\ UNCHANGED <<mu, conn, closed, closeSignal, panicked, reconnectCount, pc, lconn,
                   msg, cb, peer, localClosed, nDelivered, nFrames, nConns, chanLen,
                   chanClosed, closeReturned, closeLog>>

\* WebSocketClient.Unsubscribe(id)
UnsubscribeCall(id, res) ==
    /\ ~panicked
    /\ mu = Free
    /\ IF conn = 0
       THEN /\ res = "not connected"
            /\ UNCHANGED <<subscriptions, sent>>
       ELSE /\ subscriptions' = Remove(subscriptions, id)
            /\ IF WriteOk(conn)
               THEN res = "nil" /\ sent' = sent \cup {Frame(conn, "stop", id)}
               ELSE res = "write" /\ UNCHANGED sent
    /\ UNCHANGED <<mu, conn, closed, closeSignal, panicked, reconnectCount, pc, lconn,
                   msg, cb, peer, localClosed, nDelivered, nFrames, nConns,
                   closeReturned, closeLog>>

\* VehicleStateSubscription.Close: Unsubscribe and, if that succeeded,
\* close(s.updateChan)
VehicleStateSubscriptionClose(id, res) ==
    /\ UnsubscribeCall(id, res)
    /\ chanClosed' = IF res = "nil" THEN TRUE ELSE chanClosed
    /\ UNCHANGED chanLen

\* Close without the early return on c.closed
CloseCallNoGuard(sockErr, res) ==
    /\ ~panicked
    /\ mu = Free
    /\ Len(closeLog) < MaxCloses
    /\ closeLog' = Append(closeLog, res)
    /\ closed' = TRUE
    /\ IF closeSignal = "closed"
       THEN /\ res = "panic"
            /\ panicked' = TRUE
            /\ UNCHANGED <<closeSignal, conn, localClosed, sent, closeReturned>>
       ELSE /\ closeSignal' = "closed"
            /\ closeReturned' = TRUE
            /\ UNCHANGED panicked
            /\ IF conn # 0
               THEN /\ sent' = IF WriteOk(conn)
                               THEN sent \cup {Frame(conn, "connection_terminate", "")}
                               ELSE sent
                    /\ localClosed' = [localClosed EXCEPT ![conn] = TRUE]
                    /\ conn' = 0
                    /\ res = IF sockErr /\ peer[conn] # "up" THEN "close" ELSE "nil"
               ELSE /\ res = "nil"
                    /\ UNCHANGED <<conn, localClosed, sent>>
    /\ UNCHANGED <<mu, subscriptions, reconnectCount, pc, lconn, msg, cb, peer,
                   nDelivered, nFrames, nConns, chanLen, chanClosed>>

\* WebSocketClient.Close. sockErr: closing a socket whose peer is gone reports
\* an error. res is the returned error, "panic" when close(c.closeSignal)
\* panics on the already closed channel.
CloseCall(sockErr, res) ==
    /\ ~panicked
    /\ mu = Free
    /\ Len(closeLog) < MaxCloses
    /\ closeLog' = Append(closeLog, res)
    /\ IF closed
       THEN /\ res = "nil"
            /\ closeReturned' = TRUE
            /\ UNCHANGED <<closed, closeSignal, panicked, conn, localClosed, sent>>
       ELSE /\ closed' = TRUE
            /\ IF closeSignal = "closed"
               THEN /\ res = "panic"
                    /\ panicked' = TRUE
                    /\ UNCHANGED <<closeSignal, conn, localClosed, sent, closeReturned>>
               ELSE /\ closeSignal' = "closed"
                    /\ closeReturned' = TRUE
                    /\ UNCHANGED panicked
                    /\ IF conn # 0
                       THEN /\ sent' = IF WriteOk(conn)
                                       THEN sent \cup {Frame(conn, "connection_terminate", "")}
                                       ELSE sent
                            /\ localClosed' = [localClosed EXCEPT ![conn] = TRUE]
                            /\ conn' = 0
                            /\ res = IF sockErr /\ peer[conn] # "up" THEN "close" ELSE "nil"
                       ELSE /\ res = "nil"
                            /\ UNCHANGED <<conn, localClosed, sent>>
    /\ UNCHANGED <<mu, subscriptions, reconnectCount, pc, lconn, msg, cb, peer,
                   nDelivered, nFrames, nConns, chanLen, chanClosed>>

CloseResults == {"nil", "close", "panic"}

\* ---- messageLoop ----

\* Top of the loop: select on c.closeSignal, then read c.conn under RLock
MlLoop(k) ==
    /\ ~panicked
    /\ pc[ML(k)] = "select"
    /\ IF closeSignal = "closed"
       THEN pc' = [pc EXCEPT ![ML(k)] = "done"] /\ UNCHANGED lconn
       ELSE /\ mu = Free
            /\ lconn' = [lconn EXCEPT ![ML(k)] = conn]
            /\ pc' = [pc EXCEPT ![ML(k)] = IF conn = 0 THEN "done" ELSE "read"]
    \* the frame of the previous iteration is gone
    /\ msg' = [msg EXCEPT ![k] = NoMsg]
    /\ UNCHANGED <<mu, conn, closed, closeSignal, panicked, subscriptions, reconnectCount,
                   cb, peer, localClosed, sent, nDelivered, nFrames, nConns,
                   chanLen, chanClosed, closeReturned, closeLog>>

\* conn.ReadJSON(&msg) returns frame f, and handleMessage(f) runs up to the
\* point where the callback has been looked up and the lock released. The
\* server sends at most limit frames.
ReadFrameWithin(k, f, limit) ==
    /\ ~panicked
    /\ pc[ML(k)] = "read"
    /\ peer[lconn[ML(k)]] = "up"
    /\ ~localClosed[lconn[ML(k)]]
    /\ nFrames < limit
    /\ nFrames' = nFrames + 1
    /\ f.type \in {"data", "complete"} => mu = Free
    /\ msg' = [msg EXCEPT ![k] = f]
    /\ IF f.type = "data" /\ f.id \in DOMAIN subscriptions
       THEN /\ cb' = [cb EXCEPT ![k] = subscriptions[f.id]]
            /\ pc' = [pc EXCEPT ![ML(k)] = "callback"]
            /\ UNCHANGED subscriptions
       ELSE /\ subscriptions' = IF f.type = "complete"
                                THEN Remove(subscriptions, f.id)
                                ELSE subscriptions
            /\ pc' = [pc EXCEPT ![ML(k)] = "select"]
            /\ UNCHANGED cb
    /\ UNCHANGED <<mu, conn, closed, closeSignal, panicked, reconnectCount, lconn,
                   peer, localClosed, sent, nDelivered, nConns, chanLen, chanClosed,
                   closeReturned, closeLog>>

\* ReadFrame, had a complete frame not removed the entry
ReadFrameKeepingCompleted(k, f) ==
    /\ ~panicked
    /\ pc[ML(k)] = "read"
    /\ peer[lconn[ML(k)]] = "up"
    /\ ~localClosed[lconn[ML(k)]]
    /\ nFrames < MaxFrames
    /\ nFrames' = nFrames + 1
    /\ f.type \in {"data", "complete"} => mu = Free
    /\ msg' = [msg EXCEPT ![k] = f]
    /\ IF f.type = "data" /\ f.id \in DOMAIN subscriptions
       THEN /\ cb' = [cb EXCEPT ![k] = subscriptions[f.id]]
            /\ pc' = [pc EXCEPT ![ML(k)] = "callback"]
            /\ UNCHANGED subscriptions
       ELSE /\ UNCHANGED subscriptions
            /\ pc' = [pc EXCEPT ![ML(k)] = "select"]
            /\ UNCHANGED cb
    /\ UNCHANGED <<mu, conn, closed, closeSignal, panicked, reconnectCount, lconn,
                   peer, localClosed, sent, nDelivered, nConns, chanLen, chanClosed,
                   closeReturned, closeLog>>
ReadFrame(k, f) == ReadFrameWithin(k, f, MaxFrames)

MlReadFrame(k) == \E f \in Frames : ReadFrame(k, f)

\* conn.ReadJSON(&msg) returns an error: only a close frame with a code other
\* than going-away and abnormal-closure leads to handleDisconnect.
MlReadError(k) ==
    /\ ~panicked
    /\ pc[ML(k)] = "read"
    /\ localClosed[lconn[ML(k)]] \/ peer[lconn[ML(k)]] # "up"
    /\ pc' = [pc EXCEPT ![ML(k)] =
                 IF ~localClosed[lconn[ML(k)]] /\ peer[lconn[ML(k)]] = "unexpected"
                 THEN "hd" ELSE "done"]
    \* the local variable conn is dead from here on
    /\ lconn' = [lconn EXCEPT ![ML(k)] = 0]
    /\ UNCHANGED <<mu, conn, closed, closeSignal, panicked, subscriptions, reconnectCount,
                   msg, cb, peer, localClosed, sent, nDelivered, nFrames, nConns,
                   chanLen, chanClosed, closeReturned, closeLog>>

\* MlCallback, had the send on updateChan no default case
MlCallbackBlocking(k) ==
    /\ ~panicked
    /\ pc[ML(k)] = "callback"
    /\ (cb[k] = "chan" /\ ~chanClosed) => chanLen < ChanCap
    /\ nDelivered' = nDelivered + 1
    /\ IF cb[k] = "chan"
       THEN IF chanClosed
            THEN panicked' = TRUE /\ UNCHANGED chanLen
            ELSE /\ chanLen' = chanLen + 1
                 /\ UNCHANGED panicked
       ELSE UNCHANGED <<chanLen, panicked>>
    /\ cb' = [cb EXCEPT ![k] = ""]
    /\ pc' = [pc EXCEPT ![ML(k)] = "select"]
    /\ UNCHANGED <<mu, conn, closed, closeSignal, subscriptions, reconnectCount, lconn,
                   msg, peer, localClosed, sent, nFrames, nConns, chanClosed, closeReturned,
                   closeLog>>
\* callback(msg.Payload), called with no lock held. The vehicle-state callback
\* does a non-blocking send on updateChan.
MlCallback(k) ==
    /\ ~panicked
    /\ pc[ML(k)] = "callback"
    /\ nDelivered' = nDelivered + 1
    /\ IF cb[k] = "chan"
       THEN IF chanClosed
            THEN panicked' = TRUE /\ UNCHANGED chanLen
            ELSE /\ chanLen' = IF chanLen < ChanCap THEN chanLen + 1 ELSE chanLen
                 /\ UNCHANGED panicked
       ELSE UNCHANGED <<chanLen, panicked>>
    /\ cb' = [cb EXCEPT ![k] = ""]
    /\ pc' = [pc EXCEPT ![ML(k)] = "select"]
    /\ UNCHANGED <<mu, conn, closed, closeSignal, subscriptions, reconnectCount, lconn,
                   msg, peer, localClosed, sent, nFrames, nConns, chanClosed, closeReturned,
                   closeLog>>

\* ---- pingLoop ----

\* select: case <-c.closeSignal: return
PlExit(k) ==
    /\ ~panicked
    /\ pc[PL(k)] = "wait"
    /\ closeSignal = "closed"
    /\ pc' = [pc EXCEPT ![PL(k)] = "done"]
    /\ UNCHANGED <<mu, conn, closed, closeSignal, panicked, subscriptions, reconnectCount,
                   lconn, msg, cb, peer, localClosed, sent, nDelivered, nFrames, nConns,
                   chanLen, chanClosed, closeReturned, closeLog>>

\* select: case <-ticker.C: read c.conn under RLock and ping it; a failed
\* ping goes to handleDisconnect.
PlTick(k) ==
    /\ ~panicked
    /\ pc[PL(k)] = "wait"
    /\ mu = Free
    /\ pc' = [pc EXCEPT ![PL(k)] = IF conn = 0 THEN "done"
                                   ELSE IF WriteOk(conn) THEN "wait" ELSE "hd"]
    /\ UNCHANGED <<mu, conn, closed, closeSignal, panicked, subscriptions, reconnectCount,
                   lconn, msg, cb, peer, localClosed, sent, nDelivered, nFrames, nConns,
                   chanLen, chanClosed, closeReturned, closeLog>>

\* ---- handleDisconnect, run by the goroutine t that noticed the failure ----

\* c.mu.Lock() ... up to time.Sleep(ReconnectDelay); the lock stays held
HdLock(t) ==
    /\ ~panicked
    /\ pc[t] = "hd"
    /\ mu = Free
    /\ IF closed
       THEN /\ pc' = [pc EXCEPT ![t] = "done"]
            /\ UNCHANGED <<mu, conn, localClosed, closed, closeSignal, panicked,
                           reconnectCount>>
       ELSE /\ localClosed' = IF conn # 0 THEN [localClosed EXCEPT ![conn] = TRUE]
                              ELSE localClosed
            /\ conn' = 0
            /\ IF reconnectCount >= MaxReconnects
               THEN /\ closed' = TRUE
                    /\ IF closeSignal = "closed"
                       THEN panicked' = TRUE /\ UNCHANGED closeSignal
                       ELSE closeSignal' = "closed" /\ UNCHANGED panicked
                    /\ pc' = [pc EXCEPT ![t] = "done"]
                    /\ UNCHANGED <<mu, reconnectCount>>
               ELSE /\ reconnectCount' = reconnectCount + 1
                    /\ mu' = t
                    /\ pc' = [pc EXCEPT ![t] = "hd_sleep"]
                    /\ UNCHANGED <<closed, closeSignal, panicked>>
    /\ UNCHANGED <<subscriptions, lconn, msg, cb, peer, sent, nDelivered, nFrames,
                   nConns, chanLen, chanClosed, closeReturned, closeLog>>

\* time.Sleep(ReconnectDelay) ends; next is c.Connect(ctx)
HdSleep(t) ==
    /\ ~panicked
    /\ pc[t] = "hd_sleep"
    /\ pc' = [pc EXCEPT ![t] = "hd_connect"]
    /\ UNCHANGED <<mu, conn, closed, closeSignal, panicked, subscriptions, reconnectCount,
                   lconn, msg, cb, peer, localClosed, sent, nDelivered, nFrames, nConns,
                   chanLen, chanClosed, closeReturned, closeLog>>

\* ---- the server ----

\* The server ends connection k: with a close code that is unexpected to the
\* client, or with going-away / an abnormal closure / a network error.
ServerClose(k) ==
    \E how \in {"unexpected", "expected"} :
        /\ ~panicked
        /\ peer[k] = "up"
        /\ peer' = [peer EXCEPT ![k] = how]
        /\ UNCHANGED <<mu, conn, closed, closeSignal, panicked, subscriptions,
                       reconnectCount, pc, lconn, msg, cb, localClosed, sent, nDelivered,
                       nFrames, nConns, chanLen, chanClosed, closeReturned, closeLog>>

\* One step of goroutine t that does not wait for the server
GoroutineStep(t) ==
    \/ t[1] = "ml" /\ (MlLoop(t[2]) \/ MlReadError(t[2]) \/ MlCallback(t[2]))
    \/ t[1] = "pl" /\ (PlExit(t[2]) \/ PlTick(t[2]))
    \/ HdLock(t)
    \/ HdSleep(t)
    \/ \E o \in ConnectOutcomes,
          res \in {"nil", "already connected", "dial websocket", "send connection_init"} :
           pc[t] = "hd_connect" /\ ConnectCall(t, o, res)

---------------------------------------------------------------------------
\* The WebSocket client driven by an arbitrary caller

IdleReducer == UNCHANGED rvars
IdleCoordinator == UNCHANGED cvars

Connect ==
    \E caller \in ConnectCallers, o \in ConnectOutcomes,
       res \in {"nil", "already connected", "dial websocket", "send connection_init"} :
        ConnectCall(caller, o, res)

Subscribe ==
    \E id \in SubIds, f \in Callbacks, res \in {"nil", "not connected", "send start"} :
        SubscribeCall(id, f, res)

Unsubscribe ==
    \E id \in SubIds, res \in {"nil", "not connected", "write"} :
        UnsubscribeCall(id, res) /\ UNCHANGED <<chanLen, chanClosed>>

Close ==
    \E sockErr \in BOOLEAN, res \in CloseResults : CloseCall(sockErr, res)

\* The consumer takes one update from subscription.Updates()
Receive ==
    /\ ~panicked
    /\ chanLen > 0
    /\ chanLen' = chanLen - 1
    /\ UNCHANGED <<mu, conn, closed, closeSignal, panicked, subscriptions, reconnectCount,
                   pc, lconn, msg, cb, peer, localClosed, sent, nDelivered, nFrames,
                   nConns, chanClosed, closeReturned, closeLog>>

InitIdleCoordinator ==
    /\ runPc = "none"
    /\ interval = 0
    /\ cancelled = FALSE
    /\ nEmitted = 0
    /\ nPollFetches = 0

InitClient == InitReducer /\ InitWS /\ InitIdleCoordinator /\ InitIdleSession

NextClient ==
    \/ Connect /\ IdleReducer /\ IdleCoordinator /\ IdleSession
    \/ Subscribe /\ IdleReducer /\ IdleCoordinator /\ IdleSession
    \/ Unsubscribe /\ IdleReducer /\ IdleCoordinator /\ IdleSession
    \/ Close /\ IdleReducer /\ IdleCoordinator /\ IdleSession
    \/ Receive /\ IdleReducer /\ IdleCoordinator /\ IdleSession
    \/ \E k \in ConnIds : MlLoop(k) /\ IdleReducer /\ IdleCoordinator /\ IdleSession
    \/ \E k \in ConnIds : MlReadFrame(k) /\ IdleReducer /\ IdleCoordinator /\ IdleSession
    \/ \E k \in ConnIds : MlReadError(k) /\ IdleReducer /\ IdleCoordinator /\ IdleSession
    \/ \E k \in ConnIds : MlCallback(k) /\ IdleReducer /\ IdleCoordinator /\ IdleSession
    \/ \E k \in ConnIds : PlExit(k) /\ IdleReducer /\ IdleCoordinator /\ IdleSession
    \/ \E k \in ConnIds : PlTick(k) /\ IdleReducer /\ IdleCoordinator /\ IdleSession
    \/ \E t \in Goroutines : HdLock(t) /\ IdleReducer /\ IdleCoordinator /\ IdleSession
    \/ \E t \in Goroutines : HdSleep(t) /\ IdleReducer /\ IdleCoordinator /\ IdleSession
    \/ \E k \in ConnIds : ServerClose(k) /\ IdleReducer /\ IdleCoordinator /\ IdleSession

SpecClient == InitClient /\ [][NextClient]_vars

\* Every goroutine keeps running while it has a step to take.
FairSpecClient ==
    SpecClient /\ \A t \in Goroutines : WF_vars(GoroutineStep(t) /\ IdleReducer /\ IdleCoordinator /\ IdleSession)

\* The reducer on its own: no client and no watch command running
InitReducerAlone == InitReducer /\ InitWS /\ InitIdleCoordinator /\ InitIdleSession

SpecReducer == InitReducerAlone /\ [][NextReducer]_vars

---------------------------------------------------------------------------
\* The watch command (internal/cli/watch.go) driving the WebSocket client

PollFallbackInterval == 30
Intervals == {0, 5}
VehicleStateSubId == "vehicle-state-vehicle-1"

Bump(n) == IF n < MaxCount THEN n + 1 ELSE n

\* The keys extractVehicleStateUpdates copies, each with the type it requires
ExtractedKeys ==
    {<<"batteryLevel", "float64">>, <<"rangeEstimate", "float64">>,
     <<"chargeState", "string">>, <<"isLocked", "bool">>, <<"cabinTemp", "float64">>}

extractVehicleStateUpdates(update) ==
    [k \in {x \in DOMAIN update : <<x, update[x].t>> \in ExtractedKeys} |-> update[k]]

InitWatch ==
    /\ InitReducer
    /\ InitWS
    /\ InitIdleSession
    /\ runPc = "start"
    /\ interval \in Intervals
    /\ cancelled = FALSE
    /\ nEmitted = 0
    /\ nPollFetches = 0

\* Run: opts.Interval > 0 selects polling, otherwise WebSocket mode
RunStart ==
    /\ runPc = "start"
    /\ runPc' = IF interval > 0 THEN "poll_init" ELSE "ws_connect"
    /\ UNCHANGED <<interval, cancelled, nEmitted, nPollFetches>>
    /\ UNCHANGED <<rvars, wvars>>

\* runWebSocket: credentials and wsClient.Connect(ctx)
WsConnect ==
    \E creds \in BOOLEAN, o \in ConnectOutcomes,
       res \in {"nil", "dial websocket", "send connection_init"} :
        /\ runPc = "ws_connect"
        /\ IF creds
           THEN /\ ConnectCall(App, o, res)
                /\ runPc' = IF res = "nil" THEN "ws_subscribe" ELSE "fallback"
           ELSE /\ runPc' = "fallback"
                /\ UNCHANGED wvars
        /\ UNCHANGED <<interval, cancelled, nEmitted, nPollFetches>>
        /\ UNCHANGED rvars

\* runWebSocket: rivian.SubscribeToVehicleState(ctx, wsClient, c.vehicleID)
WsSubscribe ==
    \E res \in {"nil", "send start"} :
        /\ runPc = "ws_subscribe"
        /\ SubscribeCall(VehicleStateSubId, "chan", res)
        /\ runPc' = IF res = "nil" THEN "ws_initial" ELSE "ws_close_err"
        /\ UNCHANGED <<interval, cancelled, nEmitted, nPollFetches>>
        /\ UNCHANGED rvars

\* fetchAndOutput: GetVehicleState, and on success the state converted by
\* FromRivianVehicleState is saved and written out; no reducer is involved
fetchAndOutput(ok) ==
    /\ IF ok
       THEN \E api \in WireStates :
              /\ fetched' = parseVehicleState(TrackedID, api, now)
              /\ lastApiState' = api
       ELSE UNCHANGED <<fetched, lastApiState>>
    /\ nEmitted' = IF ok THEN Bump(nEmitted) ELSE nEmitted
    /\ UNCHANGED <<heap, currentState, now, returned, lastEvent, nOps>>

\* runWebSocket: the initial fetchAndOutput, whose failure is only a warning
WsInitial ==
    \E ok \in BOOLEAN :
        /\ runPc = "ws_initial"
        /\ runPc' = "ws_loop"
        /\ fetchAndOutput(ok)
        /\ UNCHANGED <<interval, cancelled, nPollFetches>>
        /\ UNCHANGED wvars

\* runWebSocket loop: case update := <-subscription.Updates()
WsLoopUpdate ==
    \E k \in 1..Len(UpdateMaps) :
        LET updates == extractVehicleStateUpdates(UpdateMaps[k]) IN
        /\ runPc = "ws_loop"
        /\ ~panicked
        /\ chanLen > 0
        /\ chanLen' = chanLen - 1
        /\ IF DOMAIN updates = {}
           THEN UNCHANGED <<rvars, nEmitted>>
           ELSE /\ nOps' = nOps + 1
                /\ lastEvent' = Event("partial", k)
                /\ heap' = Append(heap, PartialStateUpdateApplyTo(Deref(currentState),
                                                                  TrackedID, updates, now))
                /\ currentState' = Len(heap) + 1
                /\ returned' = returned \cup {[addr |-> currentState',
                                               val |-> heap'[currentState']]}
                /\ nEmitted' = Bump(nEmitted)
                /\ UNCHANGED <<now, fetched, lastApiState>>
        /\ UNCHANGED <<runPc, interval, cancelled, nPollFetches>>
        /\ UNCHANGED <<mu, conn, closed, closeSignal, panicked, subscriptions,
                       reconnectCount, pc, lconn, msg, cb, peer, localClosed, sent,
                       nDelivered, nFrames, nConns, chanClosed, closeReturned, closeLog>>

\* runWebSocket loop: case <-ctx.Done(): return nil
WsLoopCancel ==
    /\ runPc = "ws_loop"
    /\ cancelled
    /\ runPc' = "ws_sub_close"
    /\ UNCHANGED <<interval, cancelled, nEmitted, nPollFetches>>
    /\ UNCHANGED <<rvars, wvars>>

\* deferred subscription.Close()
WsDeferSubscriptionClose ==
    \E res \in {"nil", "not connected", "write"} :
        /\ runPc = "ws_sub_close"
        /\ VehicleStateSubscriptionClose(VehicleStateSubId, res)
        /\ runPc' = "ws_close_ok"
        /\ UNCHANGED <<interval, cancelled, nEmitted, nPollFetches>>
        /\ UNCHANGED rvars

\* deferred wsClient.Close(); Run then falls back if runWebSocket returned an error
WsDeferClose ==
    \E sockErr \in BOOLEAN, res \in CloseResults :
        /\ runPc \in {"ws_close_ok", "ws_close_err"}
        /\ CloseCall(sockErr, res)
        /\ runPc' = IF runPc = "ws_close_err" THEN "fallback" ELSE "done"
        /\ UNCHANGED <<interval, cancelled, nEmitted, nPollFetches>>
        /\ UNCHANGED rvars

\* Run: wsErr != nil, two lines on stderr and runPolling(ctx, formatter, 30s)
Fallback ==
    /\ runPc = "fallback"
    /\ runPc' = "poll_init"
    /\ interval' = PollFallbackInterval
    /\ UNCHANGED <<cancelled, nEmitted, nPollFetches>>
    /\ UNCHANGED <<rvars, wvars>>

\* runPolling: the initial fetchAndOutput, whose error ends polling
PollInitial ==
    \E ok \in BOOLEAN :
        /\ runPc = "poll_init"
        /\ runPc' = IF ok /\ ~cancelled THEN "poll_loop" ELSE "done"
        /\ fetchAndOutput(ok /\ ~cancelled)
        /\ UNCHANGED <<interval, cancelled, nPollFetches>>
        /\ UNCHANGED wvars

\* runPolling loop: case <-ticker.C: fetchAndOutput, errors are only reported
PollTick ==
    \E ok \in BOOLEAN :
        /\ runPc = "poll_loop"
        /\ nPollFetches' = Bump(nPollFetches)
        /\ fetchAndOutput(ok /\ ~cancelled)
        /\ UNCHANGED <<runPc, interval, cancelled>>
        /\ UNCHANGED wvars

\* runPolling loop: case <-ctx.Done(): return nil
PollCancel ==
    /\ runPc = "poll_loop"
    /\ cancelled
    /\ runPc' = "done"
    /\ UNCHANGED <<interval, cancelled, nEmitted, nPollFetches>>
    /\ UNCHANGED <<rvars, wvars>>

\* SIGINT / SIGTERM: cancel()
Cancel ==
    /\ ~cancelled
    /\ runPc \notin {"start", "done"}
    /\ cancelled' = TRUE
    /\ UNCHANGED <<runPc, interval, nEmitted, nPollFetches>>
    /\ UNCHANGED <<rvars, wvars>>

\* One step of WatchCommand.Run
RunStep ==
    \/ RunStart /\ IdleSession
    \/ WsConnect /\ IdleSession
    \/ WsSubscribe /\ IdleSession
    \/ WsInitial /\ IdleSession
    \/ WsLoopUpdate /\ IdleSession
    \/ WsLoopCancel /\ IdleSession
    \/ WsDeferSubscriptionClose /\ IdleSession
    \/ WsDeferClose /\ IdleSession
    \/ Fallback /\ IdleSession
    \/ PollInitial /\ IdleSession
    \/ PollTick /\ IdleSession
    \/ PollCancel /\ IdleSession

NextWatch ==
    \/ RunStart /\ IdleSession
    \/ WsConnect /\ IdleSession
    \/ WsSubscribe /\ IdleSession
    \/ WsInitial /\ IdleSession
    \/ WsLoopUpdate /\ IdleSession
    \/ WsLoopCancel /\ IdleSession
    \/ WsDeferSubscriptionClose /\ IdleSession
    \/ WsDeferClose /\ IdleSession
    \/ Fallback /\ IdleSession
    \/ PollInitial /\ IdleSession
    \/ PollTick /\ IdleSession
    \/ PollCancel /\ IdleSession
    \/ Cancel /\ IdleSession
    \/ \E k \in ConnIds : MlLoop(k) /\ IdleReducer /\ IdleCoordinator /\ IdleSession
    \/ \E k \in ConnIds : MlReadFrame(k) /\ IdleReducer /\ IdleCoordinator /\ IdleSession
    \/ \E k \in ConnIds : MlReadError(k) /\ IdleReducer /\ IdleCoordinator /\ IdleSession
    \/ \E k \in ConnIds : MlCallback(k) /\ IdleReducer /\ IdleCoordinator /\ IdleSession
    \/ \E k \in ConnIds : PlExit(k) /\ IdleReducer /\ IdleCoordinator /\ IdleSession
    \/ \E k \in ConnIds : PlTick(k) /\ IdleReducer /\ IdleCoordinator /\ IdleSession
    \/ \E t \in Goroutines : HdLock(t) /\ IdleReducer /\ IdleCoordinator /\ IdleSession
    \/ \E t \in Goroutines : HdSleep(t) /\ IdleReducer /\ IdleCoordinator /\ IdleSession
    \/ \E k \in ConnIds : ServerClose(k) /\ IdleReducer /\ IdleCoordinator /\ IdleSession

SpecWatch == InitWatch /\ [][NextWatch]_vars

\* Run and every goroutine keep running while they have a step to take; the
\* server and the user are under no obligation.
FairSpecWatch ==
    /\ SpecWatch
    /\ WF_vars(RunStep)
    /\ \A t \in Goroutines : WF_vars(GoroutineStep(t) /\ IdleReducer /\ IdleCoordinator /\ IdleSession)

---------------------------------------------------------------------------
\* The TUI (internal/tui/model.go) driving the WebSocket client

\* make(chan *model.VehicleState, 10)
StateChanCap == 10

InitTui ==
    /\ tuiPc = "start"
    /\ hasStore \in BOOLEAN
    /\ stateChanLen = 0
    /\ waitPc = "none"

\* subscribeToUpdates up to the return of wsConnectedMsg: any failure before
\* or in Connect returns nil; success creates m.updateChans[vehicleID] and
\* the Update handler answers wsConnectedMsg with waitForUpdates.
TuiConnect ==
    \E ready \in BOOLEAN, o \in ConnectOutcomes,
       res \in {"nil", "dial websocket", "send connection_init"} :
        /\ tuiPc = "start"
        /\ IF ready
           THEN /\ ConnectCall(App, o, res)
                /\ tuiPc' = IF res = "nil" THEN "subscribe" ELSE "off"
                /\ waitPc' = IF res = "nil" THEN "receive" ELSE waitPc
           ELSE /\ tuiPc' = "off"
                /\ UNCHANGED <<wvars, waitPc>>
        /\ UNCHANGED <<hasStore, stateChanLen>>
        /\ UNCHANGED <<rvars, cvars>>

\* The goroutine: rivian.SubscribeToVehicleState(m.ctx, wsClient, vehicleID)
TuiSubscribe ==
    \E res \in {"nil", "not connected", "send start"} :
        /\ tuiPc = "subscribe"
        /\ SubscribeCall(VehicleStateSubId, "chan", res)
        /\ tuiPc' = IF res = "nil" THEN "loop" ELSE "failed"
        /\ UNCHANGED <<hasStore, stateChanLen, waitPc>>
        /\ UNCHANGED <<rvars, cvars>>

\* The goroutine: case update := <-subscription.Updates(), the reducer's
\* Dispatch and, with a store, the send on updateChan under select/default
TuiLoopUpdate ==
    /\ tuiPc = "loop"
    /\ Receive
    /\ stateChanLen' = IF hasStore /\ stateChanLen < StateChanCap
                       THEN stateChanLen + 1 ELSE stateChanLen
    /\ UNCHANGED <<tuiPc, hasStore, waitPc>>
    /\ UNCHANGED <<rvars, cvars>>

\* The goroutine: case <-m.ctx.Done(): wsClient.Close(); return
TuiLoopCancel ==
    \E sockErr \in BOOLEAN, res \in CloseResults :
        /\ tuiPc = "loop"
        /\ cancelled
        /\ CloseCall(sockErr, res)
        /\ tuiPc' = "defer"
        /\ UNCHANGED <<hasStore, stateChanLen, waitPc>>
        /\ UNCHANGED <<rvars, cvars>>

\* The goroutine: the deferred subscription.Close(), after which it is gone
TuiDefer ==
    \E res \in {"nil", "not connected", "write"} :
        /\ tuiPc = "defer"
        /\ VehicleStateSubscriptionClose(VehicleStateSubId, res)
        /\ tuiPc' = "returned"
        /\ UNCHANGED <<hasStore, stateChanLen, waitPc>>
        /\ UNCHANGED <<rvars, cvars>>

\* waitForUpdates: state := <-updateChan; the Update handler answers the
\* stateUpdateMsg with the next waitForUpdates. Nothing closes updateChan.
WaitForUpdates ==
    /\ waitPc = "receive"
    /\ stateChanLen > 0
    /\ stateChanLen' = stateChanLen - 1
    /\ UNCHANGED <<tuiPc, hasStore, waitPc>>
    /\ UNCHANGED <<rvars, wvars, cvars>>

\* The user presses q or ctrl+c: m.cancel()
TuiCancel ==
    /\ ~cancelled
    /\ tuiPc # "start"
    /\ cancelled' = TRUE
    /\ UNCHANGED <<runPc, interval, nEmitted, nPollFetches>>
    /\ UNCHANGED <<rvars, wvars, tvars>>

InitTuiModel == InitReducer /\ InitWS /\ InitIdleCoordinator /\ InitIdleHTTPClient /\ InitTui

NextTui ==
    \/ TuiConnect /\ IdleHTTPClient
    \/ TuiSubscribe /\ IdleHTTPClient
    \/ TuiLoopUpdate /\ IdleHTTPClient
    \/ TuiLoopCancel /\ IdleHTTPClient
    \/ TuiDefer /\ IdleHTTPClient
    \/ WaitForUpdates /\ IdleHTTPClient
    \/ TuiCancel /\ IdleHTTPClient
    \/ \E k \in ConnIds : MlLoop(k) /\ IdleReducer /\ IdleCoordinator /\ IdleSession
    \/ \E k \in ConnIds : MlReadFrame(k) /\ IdleReducer /\ IdleCoordinator /\ IdleSession
    \/ \E k \in ConnIds : MlReadError(k) /\ IdleReducer /\ IdleCoordinator /\ IdleSession
    \/ \E k \in ConnIds : MlCallback(k) /\ IdleReducer /\ IdleCoordinator /\ IdleSession
    \/ \E k \in ConnIds : PlExit(k) /\ IdleReducer /\ IdleCoordinator /\ IdleSession
    \/ \E k \in ConnIds : PlTick(k) /\ IdleReducer /\ IdleCoordinator /\ IdleSession
    \/ \E t \in Goroutines : HdLock(t) /\ IdleReducer /\ IdleCoordinator /\ IdleSession
    \/ \E t \in Goroutines : HdSleep(t) /\ IdleReducer /\ IdleCoordinator /\ IdleSession
    \/ \E k \in ConnIds : ServerClose(k) /\ IdleReducer /\ IdleCoordinator /\ IdleSession

SpecTui == InitTuiModel /\ [][NextTui]_vars

---------------------------------------------------------------------------
\* Delivery through the two bounded channels: a server that sends more data
\* frames than a channel holds, on a connection that stays up

MaxDeliveries == ChanCap + MaxFrames

MlReadBurst(k) == \E f \in Frames : ReadFrameWithin(k, f, MaxDeliveries)

InitDelivery == InitReducer /\ InitWS /\ InitIdleCoordinator /\ InitIdleHTTPClient /\ InitTui

NextDelivery ==
    \/ TuiConnect /\ IdleHTTPClient
    \/ TuiSubscribe /\ IdleHTTPClient
    \/ TuiLoopUpdate /\ IdleHTTPClient
    \/ WaitForUpdates /\ IdleHTTPClient
    \/ \E k \in ConnIds : MlLoop(k) /\ IdleReducer /\ IdleCoordinator /\ IdleSession
    \/ \E k \in ConnIds : MlReadBurst(k) /\ IdleReducer /\ IdleCoordinator /\ IdleSession
    \/ \E k \in ConnIds : MlCallback(k) /\ IdleReducer /\ IdleCoordinator /\ IdleSession

SpecDelivery == InitDelivery /\ [][NextDelivery]_vars

---------------------------------------------------------------------------
\* The subscription registry with two subscriptions, on a connection that the
\* server keeps open and whose ping ticker has not fired yet

RegistryIds == SubIds \cup {"vehicle-state-vehicle-2"}

RegistryFrames ==
    Frames \cup {[type |-> t, id |-> i] : t \in {"data", "error", "complete"}, i \in RegistryIds}

SubscribeAny ==
    \E id \in RegistryIds, f \in Callbacks, res \in {"nil", "not connected", "send start"} :
        /\ id \notin SubIds => f = "user"
        /\ SubscribeCall(id, f, res)

UnsubscribeAny ==
    \E id \in RegistryIds, res \in {"nil", "not connected", "write"} :
        UnsubscribeCall(id, res) /\ UNCHANGED <<chanLen, chanClosed>>

MlReadFrameAny(k) == \E f \in RegistryFrames : ReadFrame(k, f)

InitSubscriptions == InitReducer /\ InitWS /\ InitIdleCoordinator /\ InitIdleSession

NextSubscriptions ==
    \/ Connect /\ IdleReducer /\ IdleCoordinator /\ IdleSession
    \/ SubscribeAny /\ IdleReducer /\ IdleCoordinator /\ IdleSession
    \/ UnsubscribeAny /\ IdleReducer /\ IdleCoordinator /\ IdleSession
    \/ Close /\ IdleReducer /\ IdleCoordinator /\ IdleSession
    \/ Receive /\ IdleReducer /\ IdleCoordinator /\ IdleSession
    \/ \E k \in ConnIds : MlLoop(k) /\ IdleReducer /\ IdleCoordinator /\ IdleSession
    \/ \E k \in ConnIds : MlReadFrameAny(k) /\ IdleReducer /\ IdleCoordinator /\ IdleSession
    \/ \E k \in ConnIds : MlReadError(k) /\ IdleReducer /\ IdleCoordinator /\ IdleSession
    \/ \E k \in ConnIds : MlCallback(k) /\ IdleReducer /\ IdleCoordinator /\ IdleSession
    \/ \E k \in ConnIds : PlExit(k) /\ IdleReducer /\ IdleCoordinator /\ IdleSession

SpecSubscriptions == InitSubscriptions /\ [][NextSubscriptions]_vars

---------------------------------------------------------------------------
\* The HTTP client driven by an arbitrary caller

IdleProgram == UNCHANGED <<rvars, wvars, cvars>> /\ IdleTui
IdleOthers == IdleProgram /\ IdleStore /\ IdleCommands
IdleGraphQL == UNCHANGED gvars

Authenticate ==
    \E em \in Emails, csrfResp \in {GqlError} \cup CsrfResponses,
       loginResp \in {GqlError} \cup LoginResponses :
        AuthenticateCall(em, csrfResp, loginResp)

SubmitOTP == \E resp \in {GqlError} \cup OTPResponses : SubmitOTPCall(resp)

RefreshToken == \E resp \in {GqlError} \cup RefreshResponses : RefreshTokenCall(resp)

GetVehicles == \E ok \in BOOLEAN : GetVehiclesCall(ok)

\* NewHTTPClient, with or without WithCredentials
InitSession ==
    /\ InitReducer
    /\ InitWS
    /\ InitIdleCoordinator
    /\ InitIdleTui
    /\ InitIdleStore
    /\ InitIdleCommands
    /\ InitIdleGraphQL
    /\ InitIdleAuthenticate
    /\ credentials \in InitialCredentials
    /\ csrfToken = ""
    /\ appSessionID = ""
    /\ otpToken = ""
    /\ email = ""
    /\ wallClock = 0
    /\ requests = {}
    /\ nRequests = 0
    /\ authResult = Result("none", "nil")
    /\ nElapses = 0

NextSession ==
    \/ Authenticate /\ UNCHANGED mvars /\ IdleOthers /\ IdleGraphQL
    \/ SubmitOTP /\ UNCHANGED mvars /\ IdleOthers /\ IdleGraphQL
    \/ RefreshToken /\ UNCHANGED mvars /\ IdleOthers /\ IdleGraphQL
    \/ GetVehicles /\ UNCHANGED mvars /\ IdleOthers /\ IdleGraphQL
    \/ Elapse /\ UNCHANGED mvars /\ IdleOthers /\ IdleGraphQL

SpecSession == InitSession /\ [][NextSession]_vars

---------------------------------------------------------------------------
\* The program's start-up: authenticate driving the HTTP client

InitAuthenticate ==
    /\ InitReducer
    /\ InitWS
    /\ InitIdleCoordinator
    /\ InitIdleTui
    /\ InitIdleStore
    /\ InitIdleCommands
    /\ InitIdleGraphQL
    /\ InitHTTPClient
    /\ authPc = "start"
    /\ cacheFile \in CacheFiles
    /\ emailArg \in Emails

NextAuthenticate ==
    \/ AuthStart /\ IdleOthers /\ IdleGraphQL
    \/ AuthRefresh /\ IdleOthers /\ IdleGraphQL
    \/ AuthLogin /\ IdleOthers /\ IdleGraphQL
    \/ AuthOTP /\ IdleOthers /\ IdleGraphQL
    \/ AuthVerify /\ IdleOthers /\ IdleGraphQL
    \/ Rerun /\ IdleOthers /\ IdleGraphQL
    \/ Elapse /\ UNCHANGED mvars /\ IdleOthers /\ IdleGraphQL

SpecAuthenticate == InitAuthenticate /\ [][NextAuthenticate]_vars

---------------------------------------------------------------------------
\* doGraphQL on its own: every response the transport can hand back

InitRequests ==
    /\ InitReducer
    /\ InitWS
    /\ InitIdleCoordinator
    /\ InitIdleTui
    /\ InitIdleStore
    /\ InitIdleCommands
    /\ InitHTTPClient
    /\ InitIdleAuthenticate
    /\ InitGraphQL

NextRequests ==
    \/ DoGraphQL /\ IdleOthers /\ UNCHANGED <<avars, mvars>>
    \/ NextRequest /\ IdleOthers /\ UNCHANGED <<avars, mvars>>

SpecRequests == InitRequests /\ [][NextRequests]_vars

---------------------------------------------------------------------------
\* The snapshot store (internal/store/store.go): one table, vehicle_states

StoreVehicles == {"vehicle-1", "vehicle-2"}
Times == {0, 1, 2}
\* LIMIT ?: SQLite places no upper bound on the rows when the value is negative
Limits == {-1, 0, 1, 2}

\* A *model.VehicleState as the store sees it
StoredState(v, t) == [VehicleID |-> v, UpdatedAt |-> t]

\* The row SaveState inserts: vehicle_id, timestamp and state_json
Row(state) ==
    [vehicle_id |-> state.VehicleID, timestamp |-> state.UpdatedAt, state_json |-> state]

StoreReturn(op, args, err, states, count) ==
    [op |-> op, args |-> args, err |-> err, states |-> states, count |-> count]

\* The positions of the rows a WHERE clause selects
Where(v, lo, hi) ==
    {i \in 1..Len(rows) : /\ rows[i].vehicle_id = v
                          /\ rows[i].timestamp >= lo
                          /\ rows[i].timestamp <= hi}

\* A bound that excludes no timestamp
NoUpperBound == CHOOSE t \in Times : \A u \in Times : u <= t

\* ORDER BY timestamp DESC: a newest row of the selected ones, then the rest
\* in the same way; rows with equal timestamps come in any order
RECURSIVE OrderByTimestampDesc(_)
OrderByTimestampDesc(sel) ==
    IF sel = {}
    THEN {<<>>}
    ELSE UNION {{<<i>> \o q : q \in OrderByTimestampDesc(sel \ {i})} :
                   i \in {j \in sel : \A k \in sel : rows[j].timestamp >= rows[k].timestamp}}

RECURSIVE OrderByTimestampAsc(_)
OrderByTimestampAsc(sel) ==
    IF sel = {}
    THEN {<<>>}
    ELSE UNION {{<<i>> \o q : q \in OrderByTimestampAsc(sel \ {i})} :
                   i \in {j \in sel : \A k \in sel : rows[j].timestamp <= rows[k].timestamp}}

\* LIMIT n
LimitTo(q, n) == IF n < 0 \/ n >= Len(q) THEN q ELSE SubSeq(q, 1, n)

\* rows.Scan and json.Unmarshal of state_json, row by row
Scan(q) == [i \in 1..Len(q) |-> rows[q[i]].state_json]

\* Store.SaveState(ctx, state); isNil is state == nil
SaveStateCall(isNil, state, dbOk) ==
    /\ IF isNil
       THEN /\ storeResult' = StoreReturn("save", <<>>, "state is nil", <<>>, 0)
            /\ UNCHANGED rows
       ELSE IF dbOk /\ Len(rows) < MaxRows
       THEN /\ rows' = Append(rows, Row(state))
            /\ storeResult' = StoreReturn("save", <<state>>, "nil", <<>>, 0)
       ELSE /\ storeResult' = StoreReturn("save", <<>>, "exec", <<>>, 0)
            /\ UNCHANGED rows

\* No bound that excludes a timestamp
NoLowerBound == CHOOSE t \in Times : \A u \in Times : t <= u

\* The selected rows in the order they were inserted
Unordered(sel) ==
    {q \in [1..Cardinality(sel) -> sel] : \A i, j \in DOMAIN q : i < j => q[i] < q[j]}

\* GetLatestState, had the query no ORDER BY
GetLatestStateCallUnordered(v, dbOk) ==
    /\ UNCHANGED rows
    /\ IF dbOk
       THEN \E q \in Unordered(Where(v, NoLowerBound, NoUpperBound)) :
                storeResult' = StoreReturn("latest", <<v>>, "nil", Scan(LimitTo(q, 1)), 0)
       ELSE storeResult' = StoreReturn("latest", <<>>, "query state", <<>>, 0)
\* Store.GetLatestState(ctx, vehicleID): ORDER BY timestamp DESC LIMIT 1;
\* sql.ErrNoRows is (nil, nil)
GetLatestStateCall(v, dbOk) ==
    /\ UNCHANGED rows
    /\ IF dbOk
       THEN \E q \in OrderByTimestampDesc(Where(v, NoLowerBound, NoUpperBound)) :
                storeResult' = StoreReturn("latest", <<v>>, "nil", Scan(LimitTo(q, 1)), 0)
       ELSE storeResult' = StoreReturn("latest", <<>>, "query state", <<>>, 0)

\* GetStateHistory, had the query ordered by timestamp ASC
GetStateHistoryCallAscending(v, since, limit, dbOk) ==
    /\ UNCHANGED rows
    /\ IF dbOk
       THEN \E q \in OrderByTimestampAsc(Where(v, since, NoUpperBound)) :
                storeResult' = StoreReturn("history", <<v, since, limit>>, "nil",
                                           Scan(LimitTo(q, limit)), 0)
       ELSE storeResult' = StoreReturn("history", <<>>, "query history", <<>>, 0)
\* Store.GetStateHistory(ctx, vehicleID, since, limit)
GetStateHistoryCall(v, since, limit, dbOk) ==
    /\ UNCHANGED rows
    /\ IF dbOk
       THEN \E q \in OrderByTimestampDesc(Where(v, since, NoUpperBound)) :
                storeResult' = StoreReturn("history", <<v, since, limit>>, "nil",
                                           Scan(LimitTo(q, limit)), 0)
       ELSE storeResult' = StoreReturn("history", <<>>, "query history", <<>>, 0)

\* Store.GetStates(ctx, vehicleID, start, end): timestamp BETWEEN ? AND ?
GetStatesCall(v, start, end, dbOk) ==
    /\ UNCHANGED rows
    /\ IF dbOk
       THEN \E q \in OrderByTimestampDesc(Where(v, start, end)) :
                storeResult' = StoreReturn("range", <<v, start, end>>, "nil", Scan(q), 0)
       ELSE storeResult' = StoreReturn("range", <<>>, "query states", <<>>, 0)

\* DeleteOldStates, had the query said timestamp <= ?
DeleteOldStatesCallInclusive(before, dbOk) ==
    IF dbOk
    THEN LET kept == SelectSeq(rows, LAMBDA r : ~(r.timestamp <= before)) IN
         /\ rows' = kept
         /\ storeResult' = StoreReturn("delete", <<before>>, "nil", <<>>, Len(rows) - Len(kept))
    ELSE /\ storeResult' = StoreReturn("delete", <<>>, "exec", <<>>, 0)
         /\ UNCHANGED rows
\* Store.DeleteOldStates(ctx, before): DELETE ... WHERE timestamp < ?
DeleteOldStatesCall(before, dbOk) ==
    IF dbOk
    THEN LET kept == SelectSeq(rows, LAMBDA r : ~(r.timestamp < before)) IN
         /\ rows' = kept
         /\ storeResult' = StoreReturn("delete", <<before>>, "nil", <<>>, Len(rows) - Len(kept))
    ELSE /\ storeResult' = StoreReturn("delete", <<>>, "exec", <<>>, 0)
         /\ UNCHANGED rows

SaveState ==
    \E isNil \in BOOLEAN, v \in StoreVehicles, t \in Times, dbOk \in BOOLEAN :
        SaveStateCall(isNil, StoredState(v, t), dbOk)

GetLatestState == \E v \in StoreVehicles, dbOk \in BOOLEAN : GetLatestStateCall(v, dbOk)

GetStateHistory ==
    \E v \in StoreVehicles, since \in Times, limit \in Limits, dbOk \in BOOLEAN :
        GetStateHistoryCall(v, since, limit, dbOk)

GetStates ==
    \E v \in StoreVehicles, start \in Times, end \in Times, dbOk \in BOOLEAN :
        GetStatesCall(v, start, end, dbOk)

DeleteOldStates == \E before \in Times, dbOk \in BOOLEAN : DeleteOldStatesCall(before, dbOk)

\* NewStore on a new database file
InitStore ==
    /\ InitReducer
    /\ InitWS
    /\ InitIdleCoordinator
    /\ InitIdleTui
    /\ InitHTTPClient
    /\ InitIdleAuthenticate
    /\ InitIdleGraphQL
    /\ InitIdleCommands
    /\ rows = <<>>
    /\ storeResult = NoResult

IdleButStore == IdleProgram /\ IdleCommands /\ UNCHANGED <<avars, mvars, gvars>>

NextStore ==
    \/ SaveState /\ IdleButStore
    \/ GetLatestState /\ IdleButStore
    \/ GetStateHistory /\ IdleButStore
    \/ GetStates /\ IdleButStore
    \/ DeleteOldStates /\ IdleButStore

SpecStore == InitStore /\ [][NextStore]_vars

\* The store's writers alone
NextStoreWrites ==
    \/ SaveState /\ IdleButStore
    \/ DeleteOldStates /\ IdleButStore

SpecStoreWrites == InitStore /\ [][NextStoreWrites]_vars

---------------------------------------------------------------------------
\* The credentials cache on its own (internal/auth/cache.go): the file holds
\* what os.WriteFile left in it

\* json.MarshalIndent(cached): the document with the struct's json tags
MarshalIndent(cached) ==
    [email |-> cached.Email, access_token |-> cached.AccessToken,
     refresh_token |-> cached.RefreshToken, expires_at |-> cached.ExpiresAt,
     saved_at |-> cached.SavedAt]

\* A file that a failed write left cut short
Truncated == [truncated |-> TRUE]

\* json.Unmarshal(data, &creds)
Unmarshal(data) ==
    [Email |-> data.email, AccessToken |-> data.access_token,
     RefreshToken |-> data.refresh_token, ExpiresAt |-> data.expires_at,
     SavedAt |-> data.saved_at]

CacheReturn(op, err, value) == [op |-> op, err |-> err, value |-> value]

NotPresent == [nil |-> TRUE]

\* What Load returns for the file contents, when the file can be read
LoadReturn(file) ==
    IF file = NilCache THEN CacheReturn("load", "nil", NotPresent)
    ELSE IF file = Truncated THEN CacheReturn("load", "parse credentials", NotPresent)
    ELSE CacheReturn("load", "nil", Unmarshal(file))

\* CredentialsCache.Load()
CacheLoadCall(readOk) ==
    /\ cacheResult' = IF readOk \/ cacheFile = NilCache
                      THEN LoadReturn(cacheFile)
                      ELSE CacheReturn("load", "read credentials", NotPresent)
    /\ UNCHANGED cacheFile

\* CredentialsCache.Save(email, creds): os.WriteFile fails before it opened
\* the file ("open") or after it truncated it ("write")
CacheSaveCall(em, creds, outcome) ==
    LET cached == [Email |-> em, AccessToken |-> creds.AccessToken,
                   RefreshToken |-> creds.RefreshToken, ExpiresAt |-> creds.ExpiresAt,
                   SavedAt |-> wallClock]
    IN /\ cacheFile' = IF outcome = "ok" THEN MarshalIndent(cached)
                       ELSE IF outcome = "write" THEN Truncated
                       ELSE cacheFile
       /\ cacheResult' = CacheReturn("save", IF outcome = "ok" THEN "nil" ELSE "write credentials",
                                     NotPresent)

\* Delete, had it reported a file that is not there
CacheDeleteCallStrict(rmOk) ==
    IF cacheFile = NilCache \/ ~rmOk
    THEN /\ cacheResult' = CacheReturn("delete", "delete credentials", NotPresent)
         /\ UNCHANGED cacheFile
    ELSE /\ cacheResult' = CacheReturn("delete", "nil", NotPresent)
         /\ cacheFile' = NilCache
\* CredentialsCache.Delete(): os.Remove, where os.IsNotExist is no error
CacheDeleteCall(rmOk) ==
    IF cacheFile = NilCache
    THEN /\ cacheResult' = CacheReturn("delete", "nil", NotPresent)
         /\ UNCHANGED cacheFile
    ELSE IF rmOk
    THEN /\ cacheResult' = CacheReturn("delete", "nil", NotPresent)
         /\ cacheFile' = NilCache
    ELSE /\ cacheResult' = CacheReturn("delete", "delete credentials", NotPresent)
         /\ UNCHANGED cacheFile

\* The credentials a caller may hand to Save
SavedCredentials ==
    {Credentials("UST", "RT", TokenLifetime), Credentials("UST2", "RT2", ExpiryBuffer - 1)}

CacheLoad == \E readOk \in BOOLEAN : CacheLoadCall(readOk)

CacheSave ==
    \E em \in Emails, creds \in SavedCredentials, outcome \in {"ok", "open", "write"} :
        CacheSaveCall(em, creds, outcome)

CacheDelete == \E rmOk \in BOOLEAN : CacheDeleteCall(rmOk)

\* NewCredentialsCache, with or without a file from an earlier run
InitCache ==
    /\ InitReducer
    /\ InitWS
    /\ InitIdleCoordinator
    /\ InitIdleTui
    /\ InitIdleStore
    /\ InitIdleGraphQL
    /\ InitHTTPClient
    /\ authPc = "none"
    /\ emailArg = ""
    /\ cacheFile \in {NilCache, Truncated}
    /\ cacheResult = NoCacheResult
    /\ statusResult = NoStatus
    /\ InitIdleMain

IdleButCache ==
    /\ IdleProgram
    /\ UNCHANGED statusResult
    /\ IdleMain
    /\ IdleStore
    /\ UNCHANGED <<avars, gvars>>
    /\ UNCHANGED <<authPc, emailArg>>

NextCache ==
    \/ CacheLoad /\ IdleButCache
    \/ CacheSave /\ IdleButCache
    \/ CacheDelete /\ IdleButCache
    \/ Elapse /\ UNCHANGED mvars /\ IdleOthers /\ IdleGraphQL

SpecCache == InitCache /\ [][NextCache]_vars

---------------------------------------------------------------------------
\* The status command (internal/cli/status.go) over the snapshot store

StatusReturn(offline, v, storeNil, network, err, output) ==
    [offline |-> offline, vehicleID |-> v, storeNil |-> storeNil, network |-> network,
     err |-> err, output |-> output]

\* StatusCommand.Run(ctx, opts) of a command built with vehicle v and a store
\* that is nil or not; apiState is what GetVehicleState answers, GqlError when
\* it fails; a method call on the nil *Store dereferences it
StatusRunCall(offline, v, storeNil, dbOk, apiState, formatOk) ==
    IF offline
    THEN IF storeNil
         THEN /\ statusResult' = StatusReturn(TRUE, v, TRUE, FALSE, "panic", <<>>)
              /\ UNCHANGED svars
         ELSE /\ GetLatestStateCall(v, dbOk)
              /\ statusResult' =
                   IF storeResult'.err # "nil"
                   THEN StatusReturn(TRUE, v, FALSE, FALSE, "get cached state", <<>>)
                   ELSE IF storeResult'.states = <<>>
                   THEN StatusReturn(TRUE, v, FALSE, FALSE, "no cached state found", <<>>)
                   ELSE IF ~formatOk
                   THEN StatusReturn(TRUE, v, FALSE, FALSE, "create formatter", <<>>)
                   ELSE StatusReturn(TRUE, v, FALSE, FALSE, "nil", storeResult'.states)
    ELSE IF apiState = GqlError
    THEN /\ statusResult' = StatusReturn(FALSE, v, storeNil, TRUE, "get vehicle state", <<>>)
         /\ UNCHANGED svars
    ELSE /\ IF storeNil THEN UNCHANGED svars ELSE SaveStateCall(FALSE, apiState, dbOk)
         /\ statusResult' =
              IF ~formatOk
              THEN StatusReturn(FALSE, v, storeNil, TRUE, "create formatter", <<>>)
              ELSE StatusReturn(FALSE, v, storeNil, TRUE, "nil", <<apiState>>)

StatusRun ==
    \/ \E v \in StoreVehicles, storeNil \in BOOLEAN, dbOk \in BOOLEAN, formatOk \in BOOLEAN :
           StatusRunCall(TRUE, v, storeNil, dbOk, GqlError, formatOk)
    \/ \E v \in StoreVehicles, storeNil \in BOOLEAN, dbOk \in BOOLEAN, formatOk \in BOOLEAN :
           \E apiState \in {GqlError} \cup {StoredState(v, t) : t \in Times} :
               StatusRunCall(FALSE, v, storeNil, dbOk, apiState, formatOk)

InitStatus ==
    /\ InitReducer
    /\ InitWS
    /\ InitIdleCoordinator
    /\ InitIdleTui
    /\ InitHTTPClient
    /\ InitIdleAuthenticate
    /\ InitIdleGraphQL
    /\ InitIdleStore
    /\ InitIdleCommands

IdleButStatus ==
    IdleProgram /\ UNCHANGED <<avars, mvars, gvars>> /\ UNCHANGED cacheResult /\ IdleMain

NextStatus ==
    \/ StatusRun /\ IdleButStatus
    \/ SaveState /\ IdleButStore

SpecStatus == InitStatus /\ [][NextStatus]_vars

---------------------------------------------------------------------------
\* run (cmd/rivian-ls/main.go): from the command line to the exit status

MaxVehicles == 2

Subcommands == {"", "version", "status", "watch", "export", "bogus"}

\* The command line: args[1] when it does not start with "-", and the global
\* flags as written before it
CommandLines ==
    [subcommand : Subcommands,
     flagsOk : BOOLEAN,
     versionFlag : BOOLEAN,
     vehicle : -1 .. MaxVehicles,
     email : Emails]

\* fs.Parse(args[1:]) stops at the first argument that is not a flag: when
\* args[1] is a subcommand no global flag is read and each keeps its default
ParsedFlags(line) ==
    IF line.subcommand = ""
    THEN line
    ELSE [subcommand |-> line.subcommand, flagsOk |-> TRUE, versionFlag |-> FALSE,
          vehicle |-> 0, email |-> ""]

NotExited == [code |-> -1, failure |-> "running"]

\* The process ends with this status
ExitWith(code, failure) ==
    /\ mainPc' = "exited"
    /\ exitStatus' = [code |-> code, failure |-> failure]

\* printVersion and its callers
PrintVersion(printOk) ==
    IF printOk THEN ExitWith(0, "none") ELSE ExitWith(1, "output")

\* run, up to the call of authenticate
MainParse ==
    /\ mainPc = "start"
    /\ LET flags == ParsedFlags(argv)
       IN \E printOk, homeOk \in BOOLEAN :
            IF argv.subcommand = "version"
            THEN PrintVersion(printOk) /\ UNCHANGED <<authPc, emailArg>>
            ELSE IF ~flags.flagsOk
            THEN \* flag.ExitOnError: Parse calls os.Exit(2)
                 ExitWith(2, "invalid arguments") /\ UNCHANGED <<authPc, emailArg>>
            ELSE IF flags.versionFlag
            THEN PrintVersion(printOk) /\ UNCHANGED <<authPc, emailArg>>
            ELSE IF ~homeOk
            THEN ExitWith(1, "home directory") /\ UNCHANGED <<authPc, emailArg>>
            ELSE /\ mainPc' = "authenticate"
                 /\ authPc' = "start"
                 /\ emailArg' = flags.email
                 /\ UNCHANGED exitStatus
    /\ UNCHANGED <<argv, cacheFile, avars>>

\* run, when authenticate has returned
MainAuthenticated ==
    /\ mainPc = "authenticate"
    /\ authPc \in {"done", "failed", "crashed"}
    /\ CASE authPc = "done" -> mainPc' = "vehicles" /\ UNCHANGED exitStatus
         [] authPc = "failed" -> ExitWith(1, "authentication")
         [] authPc = "crashed" -> ExitWith(2, "panic")
    /\ UNCHANGED <<argv, mvars, avars>>

\* run: GetVehicles and the choice of the vehicle
MainGetVehicles ==
    /\ mainPc = "vehicles"
    /\ \E ok \in BOOLEAN, n \in 0 .. MaxVehicles :
         /\ GetVehiclesCall(ok)
         /\ CASE authResult'.err = "not authenticated" -> ExitWith(1, "authentication")
              [] authResult'.err = "get vehicles" -> ExitWith(1, "transport")
              [] authResult'.err = "nil" /\ n = 0 -> ExitWith(1, "vehicle not found")
              [] authResult'.err = "nil" /\ n > 0 /\ ParsedFlags(argv).vehicle >= n ->
                   ExitWith(1, "index out of range")
              [] authResult'.err = "nil" /\ n > 0 /\ ParsedFlags(argv).vehicle < 0 ->
                   \* vehicles[*vehicleIndex] with a negative index
                   ExitWith(2, "panic")
              [] OTHER -> mainPc' = "store" /\ UNCHANGED exitStatus
    /\ UNCHANGED <<argv, mvars>>

\* run: store.NewStore
MainOpenStore ==
    /\ mainPc = "store"
    /\ \E ok \in BOOLEAN :
         IF ok
         THEN mainPc' = "route" /\ UNCHANGED exitStatus
         ELSE ExitWith(1, "store")
    /\ UNCHANGED <<argv, mvars, avars>>

\* What a subcommand or the TUI can end with: its flag set rejects the
\* arguments, its Run fails for one of these reasons, or it succeeds
CommandOutcomes(subcommand) ==
    CASE subcommand \in {"status", "watch"} ->
           {"none", "flags", "invalid arguments", "transport", "store"}
      [] subcommand = "export" -> {"none", "flags", "invalid arguments", "store"}
      [] subcommand = "" -> {"none", "tui"}
      [] OTHER -> {"unknown command"}

\* run: the switch on the subcommand, with runStatusCommand, runWatchCommand
\* and runExportCommand
MainRoute ==
    /\ mainPc = "route"
    /\ \E outcome \in CommandOutcomes(argv.subcommand) :
         CASE outcome = "none" -> ExitWith(0, "none")
           [] outcome = "flags" -> ExitWith(2, "invalid arguments")
           [] outcome = "unknown command" -> ExitWith(1, "invalid arguments")
           [] OTHER -> ExitWith(1, outcome)
    /\ UNCHANGED <<argv, mvars, avars>>

InitRun ==
    /\ InitReducer
    /\ InitWS
    /\ InitIdleCoordinator
    /\ InitIdleTui
    /\ InitIdleStore
    /\ InitIdleGraphQL
    /\ InitHTTPClient
    /\ authPc = "none"
    /\ emailArg = ""
    /\ cacheFile \in CacheFiles
    /\ cacheResult = NoCacheResult
    /\ statusResult = NoStatus
    /\ mainPc = "start"
    /\ argv \in CommandLines
    /\ exitStatus = NotExited

IdleButRun ==
    /\ IdleProgram
    /\ IdleStore
    /\ UNCHANGED gvars
    /\ UNCHANGED <<cacheResult, statusResult>>

NextRun ==
    \/ MainParse /\ IdleButRun
    \/ AuthStart /\ IdleOthers /\ IdleGraphQL
    \/ AuthRefresh /\ IdleOthers /\ IdleGraphQL
    \/ AuthLogin /\ IdleOthers /\ IdleGraphQL
    \/ AuthOTP /\ IdleOthers /\ IdleGraphQL
    \/ AuthVerify /\ IdleOthers /\ IdleGraphQL
    \/ MainAuthenticated /\ IdleButRun
    \/ MainGetVehicles /\ IdleButRun
    \/ MainOpenStore /\ IdleButRun
    \/ MainRoute /\ IdleButRun

SpecRun == InitRun /\ [][NextRun]_vars

---------------------------------------------------------------------------
\* Properties of the watch command and of the WebSocket client

\* The server ended the current connection with an expected close code and the
\* read loop has returned without asking for a reconnect.
SocketTerminallyClosed ==
    /\ conn # 0
    /\ peer[conn] = "expected"
    /\ pc[ML(conn)] = "done"

\* C1: in WebSocket mode, a terminal close of the socket before cancellation
\* makes the watch command degrade to polling: it goes on to fetch the vehicle
\* state on the polling tick (unless it is cancelled first).
C1_TerminalCloseDegrades ==
    (runPc = "ws_loop" /\ ~cancelled /\ SocketTerminallyClosed)
        ~> (cancelled \/ runPc \in {"fallback", "poll_init", "poll_loop"})

\* C2: after Close has returned, no subscription callback is invoked, even if
\* a data frame was being dispatched while Close ran.
C2_NoCallbackAfterClose ==
    [][closeReturned => nDelivered' = nDelivered]_vars

C4_TasksExitedWhenCloseReturns ==
    [][(Len(closeLog') = Len(closeLog) + 1 /\ closeLog'[Len(closeLog')] # "panic")
          => \A t \in Goroutines : pc'[t] \in {"none", "done"}]_vars

\* C5: after an unexpected disconnect the client does not stay forever neither
\* connected nor closed: once handleDisconnect has counted a reconnect attempt,
\* the client eventually is connected again or terminally closed.
C5_ReconnectsOrCloses ==
    (\E t \in Goroutines : pc[t] = "hd_sleep") ~> (conn # 0 \/ closed)

\* C6: a subscription that is live when the connection drops unexpectedly is
\* reissued (a start frame for its id) on the connection a reconnect
\* establishes, unless the client is closed or the subscription ended meanwhile.
C6_SubscriptionsReissued ==
    \A id \in SubIds :
        ((\E t \in Goroutines : pc[t] = "hd_sleep") /\ id \in DOMAIN subscriptions)
            ~> \/ closed
               \/ id \notin DOMAIN subscriptions
               \/ conn # 0 /\ Frame(conn, "start", id) \in sent

---------------------------------------------------------------------------
\* Properties of the reducer

Cur == heap[currentState]

\* C7: successive states produced by the reducer for a vehicle have
\* non-decreasing updated_at, whatever identity, full-snapshot and
\* partial-update events are dispatched.
C7_UpdatedAtMonotone ==
    [][(currentState # 0 /\ currentState' # 0)
          => heap'[currentState'].UpdatedAt >= heap[currentState].UpdatedAt]_vars

\* C8: a partial-update event applied to a state whose vin, name and model are
\* non-empty leaves those three fields non-empty and unchanged, whatever keys
\* and values the update carries.
C8_PartialKeepsIdentity ==
    [][(/\ lastEvent'.kind = "partial"
        /\ nOps' = nOps + 1
        /\ currentState # 0
        /\ heap[currentState].VIN # ""
        /\ heap[currentState].Name # ""
        /\ heap[currentState].Model # "")
          => /\ heap'[currentState'].VIN = heap[currentState].VIN
             /\ heap'[currentState'].Name = heap[currentState].Name
             /\ heap'[currentState'].Model = heap[currentState].Model
             /\ heap'[currentState'].VIN # ""
             /\ heap'[currentState'].Name # ""
             /\ heap'[currentState'].Model # ""]_vars

\* A partial update carrying the keys "vin", "name" and "model" has been applied
\* to a state that had its identity.
C8_Witness ==
    /\ lastEvent = Event("partial", 4)
    /\ currentState # 0
    /\ Cur.VIN = "VIN123" /\ Cur.Name = "My R1T" /\ Cur.Model = "R1T"

\* C9: in every state produced by the reducer, also from an absent prior state,
\* range_status is critical if range_miles < 25, low if range_miles < 50 and
\* normal otherwise.
C9_RangeStatusPure ==
    currentState # 0 => Cur.RangeStatus = DetermineRangeStatus(Cur.RangeEstimate)

\* C10: a state value returned by Dispatch or GetState is never modified by a
\* later Dispatch.
C10_ReturnedNeverModified ==
    \A r \in returned : heap[r.addr] = r.val

IdentityFields == {"VIN", "Name", "Model"}

\* C11: a full-snapshot event replaces the state wholesale: every non-identity
\* field of the result is the one of the converted new state, and each of vin,
\* name and model that is empty on the new state is the prior state's (empty
\* when there is no prior state).
C11_SnapshotReplaces ==
    [][(lastEvent'.kind = "snapshot" /\ lastEvent'.arg = 1 /\ nOps' = nOps + 1)
          => LET conv == FromRivianVehicleState(fetched)
                 res == heap'[currentState']
             IN  /\ \A f \in DOMAIN ZeroVehicleState \ IdentityFields : res[f] = conv[f]
                 /\ \A f \in IdentityFields :
                       res[f] = IF conv[f] # "" THEN conv[f]
                                ELSE IF currentState = 0 THEN ""
                                ELSE heap[currentState][f]]_vars

\* A snapshot without cabin temperature was merged onto a named state that had one.
C11_Witness ==
    /\ lastEvent = Event("snapshot", 1)
    /\ currentState > 1
    /\ heap[currentState - 1].CabinTemp = SomeFloat(72)
    /\ heap[currentState - 1].ChargeState = "charging"
    /\ Cur.CabinTemp = NoFloat
    /\ Cur.ChargeState = "unknown"
    /\ Cur.VIN = "VIN123"
    /\ Cur.Name # ""

\* C12: an identity event whose list does not contain the tracked vehicle
\* leaves the state as it is: the same pointer, no field of any value changed
\* (updated_at included), and an absent state stays absent.
C12_NotFoundUnchanged ==
    [][(lastEvent'.kind = "identity" /\ lastEvent'.arg = 0 /\ nOps' = nOps + 1)
          => (currentState' = currentState /\ heap' = heap)]_vars

C12_Witness ==
    /\ lastEvent = Event("identity", 0)
    /\ currentState # 0
    /\ Cur.Name = "My R1T"

\* The field each recognised key of a partial update writes
UpdateField ==
    [batteryLevel |-> "BatteryLevel", rangeEstimate |-> "RangeEstimate",
     chargeState |-> "ChargeState", isLocked |-> "IsLocked", cabinTemp |-> "CabinTemp"]

\* C13: a partial update of an existing state sets updated_at to now, changes
\* no field other than the ones its recognised keys name (and range_status,
\* only together with a range key), recomputes range_status from the new range
\* whenever the range changes, and ignores unknown keys.
C13_PartialFrame ==
    [][(lastEvent'.kind = "partial" /\ nOps' = nOps + 1 /\ currentState # 0)
          => LET u == extractVehicleStateUpdates(UpdateMaps[lastEvent'.arg])
                 named == {UpdateField[k] : k \in DOMAIN u}
                 old == heap[currentState]
                 res == heap'[currentState']
             IN  /\ res.UpdatedAt = now
                 /\ \A f \in DOMAIN ZeroVehicleState \ {"UpdatedAt", "RangeStatus"} :
                       res[f] # old[f] => f \in named
                 /\ res.RangeStatus # old.RangeStatus => "RangeEstimate" \in named
                 /\ res.RangeEstimate # old.RangeEstimate
                       => res.RangeStatus = DetermineRangeStatus(res.RangeEstimate)]_vars

\* A partial update that names three fields ran on a state with a range and a
\* battery level, and both are still there.
C13_Witness ==
    /\ lastEvent = Event("partial", 3)
    /\ currentState > 1
    /\ Cur.RangeEstimate > 0
    /\ Cur.BatteryLevel > 0
    /\ Cur.ChargeState = "charging"
    /\ Cur.CabinTemp = SomeFloat(72)

\* C14: is_locked of a parsed vehicle state is true exactly when each of the
\* four door-lock statuses on the wire is "locked"; a door-lock status that is
\* unknown or absent makes it false.
C14_LockedIffAllLocked ==
    fetched # NoState
        => (fetched.IsLocked <=> \A i \in 1..4 : lastApiState.DoorLocks[i] = "locked")

---------------------------------------------------------------------------
\* Properties of the HTTP client's session

\* C15: every request that carries a u-sess header after a password login, a
\* one-time-code submission or a token refresh carries the user-session token
\* in it, never the access token.
C15_USessIsUserSessionToken ==
    \A r \in requests : r.usess # "" => r.usess \in UserSessionTokens

\* C16: when the login mutation answers with the MFA variant and its OTP
\* token, Authenticate stores that token and the email, returns
\* OTPRequiredError and leaves the credentials as they were, so a client that
\* was not authenticated is not authenticated afterwards; while the OTP is
\* pending, a client without credentials gets credentials only from a call
\* that the server accepted (the one-time code, or a new password login).
C16_MFAStoresOtpAndEmail ==
    [][/\ \A em \in Emails, csrfResp \in CsrfResponses, loginResp \in LoginResponses :
            (/\ AuthenticateCall(em, csrfResp, loginResp)
             /\ loginResp.Typename = "MobileMFALoginResponse"
             /\ loginResp.OtpToken # Null)
            => /\ otpToken' = loginResp.OtpToken
               /\ email' = em
               /\ authResult' = Result("Authenticate", "OTPRequired")
               /\ credentials' = credentials
               /\ ~IsAuthenticated => ~IsAuthenticated'
       /\ (otpToken # "" /\ credentials = NilCredentials /\ credentials' # NilCredentials)
            => authResult' \in {Result("SubmitOTP", "nil"), Result("Authenticate", "nil")}]_vars

\* Authenticate has just answered OTPRequired on a client without credentials:
\* token and email are stored and the client is not authenticated.
C16_Witness ==
    /\ authResult = Result("Authenticate", "OTPRequired")
    /\ otpToken = "OTP"
    /\ email = "a@example.com"
    /\ credentials = NilCredentials
    /\ ~IsAuthenticated

\* C17: SubmitOTP with an OTP token and an email stored: when the server
\* accepts the code the credentials are set from the response (the client is
\* authenticated) and the stored OTP token and email are cleared; when the
\* request fails, credentials, OTP token and email are what they were.
C17_SubmitOTPEffects ==
    [][\A resp \in {GqlError} \cup OTPResponses :
          (SubmitOTPCall(resp) /\ otpToken # "" /\ email # "")
          => IF resp # GqlError
             THEN /\ authResult' = Result("SubmitOTP", "nil")
                  /\ credentials' = Credentials(resp.UserSessionToken, resp.RefreshToken,
                                                 wallClock + TokenLifetime)
                  /\ IsAuthenticated'
                  /\ otpToken' = ""
                  /\ email' = ""
             ELSE /\ authResult'.err # "nil"
                  /\ UNCHANGED <<credentials, otpToken, email>>]_vars

\* An unauthenticated client's one-time code was accepted.
C17_Witness ==
    /\ authResult = Result("SubmitOTP", "nil")
    /\ IsAuthenticated
    /\ credentials.AccessToken = "UST"
    /\ otpToken = ""
    /\ email = ""
    /\ \E r \in requests : r.op = "loginWithOTP" /\ r.usess = ""

\* C18: SubmitOTP with no OTP token or no email stored returns an error, sends
\* no request and leaves the session as it was.
C18_SubmitOTPNoSession ==
    [][\A resp \in {GqlError} \cup OTPResponses :
          (SubmitOTPCall(resp) /\ (otpToken = "" \/ email = ""))
          => /\ authResult'.call = "SubmitOTP"
             /\ authResult'.err # "nil"
             /\ nRequests' = nRequests
             /\ requests' = requests
             /\ UNCHANGED <<credentials, csrfToken, appSessionID, otpToken, email>>]_vars

\* SubmitOTP was refused for want of an email although an OTP token is stored.
C18_Witness ==
    /\ authResult = Result("SubmitOTP", "no email stored")
    /\ otpToken = "OTP"
    /\ email = ""
    /\ \A r \in requests : r.op # "loginWithOTP"

\* C19: when Authenticate succeeds without MFA on a client that was not
\* authenticated, the client is authenticated, its credentials are set and the
\* stored email is cleared.
C19_LoginClearsEmail ==
    [][\A em \in Emails, csrfResp \in CsrfResponses, loginResp \in LoginResponses :
          (/\ AuthenticateCall(em, csrfResp, loginResp)
           /\ authResult' = Result("Authenticate", "nil")
           /\ ~IsAuthenticated)
          => /\ IsAuthenticated'
             /\ credentials' # NilCredentials
             /\ email' = ""]_vars

\* C20: when the refresh of stale cached credentials fails, authenticate goes
\* on to the password login with the client's credentials cleared and the
\* cache file deleted.
C20_RefreshFailureClears ==
    [][(authPc = "refresh" /\ authPc' = "login")
          => (credentials' = NilCredentials /\ cacheFile' = NilCache)]_vars

\* C21: IsAuthenticated and IsValid are true exactly when credentials exist
\* and expire more than five minutes from now: credentials expiring in four
\* or in exactly five minutes are not valid, credentials expiring in six are,
\* and the two checks agree on the same credentials.
C21_ValidityThreshold ==
    /\ IsAuthenticated
          <=> (credentials # NilCredentials /\ credentials.ExpiresAt > wallClock + ExpiryBuffer)
    /\ credentials # NilCredentials
          => /\ credentials.ExpiresAt - wallClock \in {ExpiryBuffer - 1, ExpiryBuffer}
                   => ~IsAuthenticated
             /\ credentials.ExpiresAt - wallClock = ExpiryBuffer + 1 => IsAuthenticated
             /\ IsValid(Save(emailArg, credentials)) <=> IsAuthenticated
    /\ cacheFile # NilCache
          => /\ IsValid(cacheFile) <=> cacheFile.ExpiresAt > wallClock + ExpiryBuffer
             /\ cacheFile.ExpiresAt - wallClock \in {ExpiryBuffer - 1, ExpiryBuffer}
                   => ~IsValid(cacheFile)
             /\ cacheFile.ExpiresAt - wallClock = ExpiryBuffer + 1 => IsValid(cacheFile)

\* Credentials obtained by a login and saved to the cache are exactly five
\* minutes from expiry: neither check accepts them.
C21_Witness ==
    /\ credentials # NilCredentials
    /\ cacheFile # NilCache
    /\ credentials.ExpiresAt = wallClock + ExpiryBuffer
    /\ cacheFile.ExpiresAt = wallClock + ExpiryBuffer
    /\ wallClock > 0
    /\ ~IsAuthenticated
    /\ ~IsValid(cacheFile)

---------------------------------------------------------------------------
\* Properties of doGraphQL

\* C22: doGraphQL returns nil only for status 200 with no GraphQL errors; a
\* 200 whose errors array is not empty fails with an error that carries the
\* first message, any other status fails with an error that carries the status
\* and the body, and in both failures *result is left untouched.
C22_GraphQLOutcome ==
    gqlOutcome # NoOutcome
        => /\ gqlOutcome.err = NilError
                => /\ httpResponse.status = StatusOK
                   /\ ~httpResponse.errorsPresent \/ httpResponse.errors = <<>>
           /\ (~httpResponse.doErr /\ httpResponse.status # StatusOK)
                => /\ gqlOutcome.err = [kind |-> "unexpected status",
                                        status |-> httpResponse.status,
                                        body |-> Body(httpResponse)]
                   /\ gqlOutcome.result = "untouched"
           /\ (/\ ~httpResponse.doErr
               /\ httpResponse.status = StatusOK
               /\ httpResponse.json
               /\ httpResponse.errorsPresent
               /\ httpResponse.errors # <<>>)
                => /\ gqlOutcome.err = [kind |-> "graphql error",
                                        message |-> httpResponse.errors[1]]
                   /\ gqlOutcome.result = "untouched"

\* A 200 that carries both data fitting the result and two GraphQL errors was
\* answered with the first error.
C22_Witness ==
    /\ gqlOutcome # NoOutcome
    /\ ~httpResponse.doErr
    /\ httpResponse.status = StatusOK
    /\ httpResponse.json
    /\ httpResponse.errorsPresent
    /\ Len(httpResponse.errors) = 2
    /\ httpResponse.data = "fits"
    /\ gqlOutcome.err = [kind |-> "graphql error", message |-> "Rate limited"]

---------------------------------------------------------------------------
\* Further properties of the HTTP client's session

\* The login result lacks a field its variant should carry
LacksField(loginResp) ==
    IF loginResp.Typename = "MobileMFALoginResponse"
    THEN loginResp.OtpToken = Null
    ELSE Null \in {loginResp.AccessToken, loginResp.RefreshToken, loginResp.UserSessionToken}

\* C23: when the login result lacks a field of its variant (access, refresh or
\* user-session token of the OK variant, OTP token of the MFA variant),
\* Authenticate returns an error and leaves the credentials as they were.
C23_MissingFieldFails ==
    [][\A em \in Emails, csrfResp \in CsrfResponses, loginResp \in LoginResponses :
          (AuthenticateCall(em, csrfResp, loginResp) /\ LacksField(loginResp))
          => /\ authResult'.call = "Authenticate"
             /\ authResult'.err \notin {"nil", "OTPRequired", "panic"}
             /\ credentials' = credentials]_vars

---------------------------------------------------------------------------
\* Properties of the subscription registry

\* C24: Subscribe with an id that is already registered returns an error and
\* leaves the registry, with the callback registered for that id, as it was.
C24_DuplicateSubscribeFails ==
    [][\A id \in SubIds, f \in Callbacks, res \in {"nil", "not connected", "send start"} :
          (SubscribeCall(id, f, res) /\ id \in DOMAIN subscriptions)
          => (res # "nil" /\ subscriptions' = subscriptions)]_vars

\* C25: an error frame for a registered id is handed to that id's callback;
\* the registry keeps the entry and the connection stays as it was.
C25_ErrorFrameDelivered ==
    [][\A k \in ConnIds, id \in SubIds :
          (ReadFrame(k, [type |-> "error", id |-> id]) /\ id \in DOMAIN subscriptions)
          => /\ pc'[ML(k)] = "callback"
             /\ cb'[k] = subscriptions[id]
             /\ subscriptions' = subscriptions
             /\ conn' = conn
             /\ closed' = closed]_vars

\* The registry but for the entry of id
Others(reg, id) == [o \in DOMAIN reg \ {id} |-> reg[o]]

C27_NoStartBeforeAck ==
    \A fr \in sent : fr.type = "start" => nFrames > 0


\* C28: delivering a data frame or an updated state never blocks: each of the
\* two channels holds at most 10 items, a messageLoop that has a callback to
\* run can always run it, and the TUI goroutine can always take the update it
\* was handed, whatever the consumer behind the channel is doing.
C28_DeliveryNeverBlocks ==
    /\ chanLen <= ChanCap
    /\ stateChanLen <= StateChanCap
    /\ \A k \in ConnIds : (pc[ML(k)] = "callback" /\ ~panicked) => ENABLED MlCallback(k)
    /\ (tuiPc = "loop" /\ chanLen > 0 /\ ~panicked) => ENABLED TuiLoopUpdate

\* a frame beyond the tenth was delivered with the channel full and dropped
C28_Witness ==
    /\ chanLen = ChanCap
    /\ nDelivered = ChanCap + 1
    /\ pc[ML(1)] = "select"
    /\ ~panicked

\* C29: in polling mode a failed get_vehicle_state, the first one included,
\* does not end polling: runPolling returns only once ctx is cancelled.
C29_PollingEndsOnlyOnCancel ==
    [][(runPc \in {"poll_init", "poll_loop"} /\ runPc' = "done") => cancelled]_vars

\* C30: once the TUI goroutine has returned on cancellation the update
\* channels are closed and the consumer is no longer blocked receiving.
C30_CancelReleasesConsumer ==
    (cancelled /\ tuiPc = "returned") => (chanClosed /\ waitPc # "receive")


\* Number of rows of table for vehicle v with timestamp t
CountRows(table, v, t) ==
    Cardinality({i \in 1..Len(table) : table[i].vehicle_id = v /\ table[i].timestamp = t})

\* Number of returned states of vehicle v with timestamp t
CountStates(states, v, t) ==
    Cardinality({i \in 1..Len(states) : states[i].VehicleID = v /\ states[i].UpdatedAt = t})

NewestFirst(states) ==
    \A i, j \in 1..Len(states) : i < j => states[i].UpdatedAt >= states[j].UpdatedAt

\* The number of rows of vehicle v with lo <= timestamp <= hi
Eligible(v, lo, hi) ==
    Cardinality({i \in 1..Len(rows) : /\ rows[i].vehicle_id = v
                                      /\ lo <= rows[i].timestamp
                                      /\ rows[i].timestamp <= hi})

\* What history and range return whatever the limit: rows of that vehicle
\* only, none older than since, newest-first, none invented, and none left
\* out that is newer than the oldest one returned; range returns exactly the
\* vehicle's rows between start and end.
HistoryAndRange ==
    /\ (storeResult.op = "history" /\ storeResult.err = "nil") =>
         LET v == storeResult.args[1]
             since == storeResult.args[2]
             res == storeResult.states
         IN /\ \A i \in 1..Len(res) : res[i].VehicleID = v /\ res[i].UpdatedAt >= since
            /\ NewestFirst(res)
            /\ \A t \in Times : CountStates(res, v, t) <= CountRows(rows, v, t)
            /\ Len(res) > 0 =>
                 \A t \in Times : t > res[Len(res)].UpdatedAt =>
                     CountStates(res, v, t) = CountRows(rows, v, t)
    /\ (storeResult.op = "range" /\ storeResult.err = "nil") =>
         LET v == storeResult.args[1]
             start == storeResult.args[2]
             end == storeResult.args[3]
             res == storeResult.states
         IN /\ \A i \in 1..Len(res) : res[i].VehicleID = v
            /\ NewestFirst(res)
            /\ \A t \in Times :
                 CountStates(res, v, t) =
                     IF start <= t /\ t <= end THEN CountRows(rows, v, t) ELSE 0

C32_LatestIsNewest ==
    (storeResult.op = "latest" /\ storeResult.err = "nil") =>
        LET v == storeResult.args[1]
            res == storeResult.states
            mine == {i \in 1..Len(rows) : rows[i].vehicle_id = v}
        IN IF mine = {}
           THEN res = <<>>
           ELSE /\ Len(res) = 1
                /\ res[1].VehicleID = v
                /\ \E i \in mine : res[1] = rows[i].state_json
                /\ \A i \in mine : rows[i].timestamp <= res[1].UpdatedAt

\* the newest row of the vehicle was saved last, and another vehicle holds a
\* newer row still
C32_Witness ==
    /\ storeResult.op = "latest"
    /\ storeResult.err = "nil"
    /\ storeResult.args = <<"vehicle-1">>
    /\ Len(rows) = 3
    /\ rows[1] = Row(StoredState("vehicle-1", 0))
    /\ rows[2] = Row(StoredState("vehicle-2", 2))
    /\ rows[3] = Row(StoredState("vehicle-1", 1))
    /\ storeResult.states = <<StoredState("vehicle-1", 1)>>

\* C33: delete_older_than(before) removes the rows with timestamp < before
\* and no other, returns their number and leaves the rest as they were; save
\* appends at most one row, the state's, and changes no row already there.
C33_DeleteAndSaveFrame ==
    [][/\ storeResult'.op = "delete" =>
            \A before \in Times :
                DeleteOldStatesCall(before, TRUE) =>
                    /\ \A i \in 1..Len(rows') : rows'[i].timestamp >= before
                    /\ \A v \in StoreVehicles, t \in Times :
                           t >= before => CountRows(rows', v, t) = CountRows(rows, v, t)
                    /\ storeResult'.count = Len(rows) - Len(rows')
                    /\ storeResult'.err = "nil"
       /\ storeResult'.op = "save" =>
            \A isNil \in BOOLEAN, v \in StoreVehicles, t \in Times, dbOk \in BOOLEAN :
                SaveStateCall(isNil, StoredState(v, t), dbOk) =>
                    /\ Len(rows') >= Len(rows)
                    /\ SubSeq(rows', 1, Len(rows)) = rows
                    /\ IF storeResult'.err = "nil"
                       THEN rows' = Append(rows, Row(StoredState(v, t)))
                       ELSE rows' = rows]_vars

\* a delete that removed a row and kept one whose timestamp equals before
C33_Witness ==
    /\ storeResult.op = "delete"
    /\ storeResult.err = "nil"
    /\ storeResult.count = 1
    /\ Len(rows) = 2
    /\ \E i \in 1..Len(rows) : rows[i].timestamp = storeResult.args[1]


\* C34: load() on a missing file returns "not present" without error; a
\* save() that succeeded is followed by a load() that returns its email and
\* credentials; delete() on a missing file succeeds and leaves it missing,
\* and after a delete() that succeeded load() returns "not present".
C34_CacheRoundTrip ==
    [][/\ cacheResult'.op = "load" =>
            \A readOk \in BOOLEAN :
                CacheLoadCall(readOk) =>
                    /\ cacheFile = NilCache =>
                           cacheResult' = CacheReturn("load", "nil", NotPresent)
                    /\ cacheFile' = cacheFile
       /\ cacheResult'.op = "save" =>
            \A em \in Emails, creds \in SavedCredentials, outcome \in {"ok", "open", "write"} :
                (CacheSaveCall(em, creds, outcome) /\ cacheResult'.err = "nil") =>
                    /\ LoadReturn(cacheFile').err = "nil"
                    /\ LoadReturn(cacheFile').value # NotPresent
                    /\ LoadReturn(cacheFile').value.Email = em
                    /\ ToRivianCredentials(LoadReturn(cacheFile').value) = creds
       /\ cacheResult'.op = "delete" =>
            \A rmOk \in BOOLEAN :
                CacheDeleteCall(rmOk) =>
                    /\ cacheFile = NilCache =>
                           cacheResult'.err = "nil" /\ cacheFile' = NilCache
                    /\ cacheResult'.err = "nil" =>
                           LoadReturn(cacheFile') = CacheReturn("load", "nil", NotPresent)]_vars

\* a load that returned what a save, itself replacing an earlier save, wrote
C34_Witness ==
    /\ cacheResult.op = "load"
    /\ cacheResult.err = "nil"
    /\ cacheResult.value # NotPresent
    /\ cacheResult.value.Email = "b@example.com"
    /\ cacheResult.value.AccessToken = "UST2"
    /\ cacheResult.value.SavedAt > 0


\* C35: status --offline does not call the API; it prints the vehicle's most
\* recent stored row, and with no row for the vehicle or with no store it
\* returns the error that no cached state was found.
C35_OfflineNotFound ==
    statusResult.offline =>
        /\ ~statusResult.network
        /\ statusResult.err # "panic"
        /\ LET mine == {i \in 1..Len(rows) : rows[i].vehicle_id = statusResult.vehicleID}
           IN /\ (mine = {} \/ statusResult.storeNil) =>
                    statusResult.err \in {"no cached state found", "get cached state"}
              /\ statusResult.err = "nil" =>
                    /\ Len(statusResult.output) = 1
                    /\ \E i \in mine : statusResult.output[1] = rows[i].state_json
                    /\ \A i \in mine :
                           rows[i].timestamp <= statusResult.output[1].UpdatedAt

\* What the exit status is said to be for each kind of ending
StableCode(failure) ==
    CASE failure = "none" -> {0}
      [] failure = "authentication" -> {1}
      [] failure \in {"vehicle not found", "index out of range"} -> {2}
      [] failure = "transport" -> {3}
      [] failure = "invalid arguments" -> {4}
      [] OTHER -> -1 .. 255

\* C36: a command exits with 0 on success, 1 on an authentication failure, 2
\* when the vehicle is not found or the vehicle index is out of range, 3 when
\* the transport or the API is unreachable and 4 on invalid arguments.
C36_StableExitCodes ==
    mainPc = "exited" => exitStatus.code \in StableCode(exitStatus.failure)

\* The fields of a state that a key of an update map names
NamedFields(updates) ==
    UNION {CASE k = "batteryLevel" -> {"BatteryLevel"}
             [] k = "rangeEstimate" -> {"RangeEstimate", "RangeStatus"}
             [] k = "chargeState" -> {"ChargeState"}
             [] k = "isLocked" -> {"IsLocked"}
             [] k = "cabinTemp" -> {"CabinTemp"}
             [] OTHER -> {} : k \in DOMAIN updates}

\* C37: in WebSocket watch mode a live update is merged onto the bootstrap
\* snapshot: the state emitted after a partial update keeps the vehicle id
\* and every field of what was emitted before it (the get_vehicle_state
\* snapshot, for the first update) that the update does not name.
C37_UpdatesMergeOntoSnapshot ==
    [][(runPc = "ws_loop" /\ fetched # NoState /\ nOps' = nOps + 1)
         => LET before == IF currentState = 0 THEN FromRivianVehicleState(fetched)
                          ELSE heap[currentState]
                after == heap'[currentState']
                updates == extractVehicleStateUpdates(UpdateMaps[lastEvent'.arg])
            IN \A f \in DOMAIN ZeroVehicleState \ (NamedFields(updates) \cup {"UpdatedAt"}) :
                  after[f] = before[f]]_vars

\* C38: over any sequence of Connect, Close and disconnect handling on one
\* client the close-signal channel is closed at most once: c.closed is set,
\* and close(c.closeSignal) executed with it, only while the channel is open.
C38_CloseSignalClosedOnce ==
    [][(~closed /\ closed') => closeSignal = "open"]_vars

\* C39: no value is sent on a vehicle-state subscription's update channel
\* after the channel has been closed: no vehicle-state callback runs its send
\* once VehicleStateSubscription.Close has closed updateChan.
C39_NoSendOnClosedChannel ==
    [][\A k \in ConnIds :
          (pc[ML(k)] = "callback" /\ cb[k] = "chan" /\ nDelivered' = nDelivered + 1)
              => ~chanClosed]_vars

\* C40: handleDisconnect always terminates and releases the client lock: a
\* goroutine that holds c.mu inside handleDisconnect eventually gives it up,
\* so that a Close, Subscribe or Unsubscribe waiting for the lock can return.
C40_HandleDisconnectReleasesLock ==
    \A t \in Goroutines : (mu = t) ~> (mu = Free)

====
